---- MODULE Spec2Model ----
(***************************************************************************)
(* The Quorum agents: the shared store (documents, embeddings, events,     *)
(* tasks, agent_runs), the psycopg2 connection each agent owns (one open   *)
(* transaction at a time, no autocommit), the storage helpers of           *)
(* QuorumAgent, the execute() harness, and the Closer's verdict            *)
(* processing.                                                             *)
(*                                                                         *)
(* Transaction semantics (psycopg2 on PostgreSQL): a statement that fails  *)
(* puts the connection's transaction in the aborted state, in which every  *)
(* later statement raises until a rollback; commit() makes every pending   *)
(* write of the connection durable, whoever issued it; close() discards    *)
(* the pending writes.                                                     *)
(***************************************************************************)
EXTENDS Integers, Sequences, FiniteSets, TLC

\* ---------------------------------------------------------------- bounds
MaxIds   == 2      \* ids the store hands out to documents and events
MaxCalls == 3      \* execute() calls, all agents together
MaxVec   == 1      \* embedding vectors are 0..MaxVec
MaxTasks == 2      \* rows of the tasks table
MaxVerdict == 2    \* entries of a model verdict, both lists together
MaxParas == 3      \* paragraphs of an item's content
MaxChunks == 2     \* chunks a normalization response supplies
MaxItems == 2      \* items queued for one DataCollector run
MaxChunkRows == 2  \* ids the store hands out to document_chunks rows
MaxSessions == 2   \* execute() calls of the onboarding agent
MaxExtracted == 1  \* tasks _extract_tasks returns
MaxQueued == 3     \* queue_item calls on one DataCollectorAgent instance
MaxRequests == 2   \* requests the embedding backend receives
MaxHandles == 4    \* connections psycopg2.connect hands out

Agents == {"data_collector", "onboarding"}

Vectors == 0..MaxVec

\* Exceptions (subclasses of Exception) and interruptions (BaseException).
NoExc             == "none"
ProviderError     == "ProviderError"
StoreError        == "StoreError"
InFailedTxn       == "InFailedSqlTransaction"
Interrupt         == "Interrupt"
AttributeError    == "AttributeError"
ValueError        == "ValueError"
OperationalError  == "OperationalError"

\* What `except Exception` catches.
Exceptions == {ProviderError, StoreError, InFailedTxn, AttributeError,
               ValueError, OperationalError}

VARIABLES
    db_documents,   \* committed rows of documents: set of ids
    db_embeddings,  \* committed rows of embeddings: set of [ref_type, ref_id, embedding]
    db_events,      \* committed rows of events: set of ids
    agent_runs,     \* committed rows of agent_runs
    nextId,         \* next id the store assigns (ids are never reused)
    conn,           \* per agent: self.db_conn and its open transaction
    pc,             \* per agent: position inside execute()
    calls,          \* per agent: number of execute() calls started
    runOutcome,     \* per agent: how run() ended in the current call:
                    \* "none", "returned", or the exception that left it
    pending_exc,    \* per agent: the exception execute() is handling
    run_result,     \* per agent: the value run() returned
    outcome,        \* per agent: how the last execute() call left
    last_store,     \* the store_document call that has just ended: the id it
                    \* returned (0: none), the fault injected, what it raised
    failedDocs,     \* ids of the documents whose embedding call failed
    last_search,    \* the search_memory call that has just returned
    tasks,          \* committed rows of tasks: id -> [status, completed_at, notes]
    cpc,            \* per Closer run: position inside CloserAgent.run
    left,           \* per Closer run: verdict entries not yet processed, and
                    \* what the cleaned response was (object, text, array)
    last_step,      \* the verdict entry a Closer loop has just processed
    claim_turns,    \* whether a user turn of the lookback window matches a
                    \* completion marker
    llm_called,     \* per Closer run: whether call_llm was called
    cconn,          \* per Closer run: self.db_conn and its transaction
    cresult,        \* per Closer run: what run() returned or raised
    run_failed,     \* the kind of the last verdict entry whose write failed
                    \* in the run in progress ("": none yet)
    search,         \* the search_memory call in progress or just returned
    config,         \* self.config: the provider names the environment gave
    db_chunks,      \* committed rows of document_chunks:
                    \* set of [id, document_id, chunk_index]
    pending_chunks, \* document_chunks rows written in the DataCollector's
                    \* open transaction
    nextChunk,      \* next id the store assigns to a document_chunks row
    dpc,            \* position of the DataCollector inside execute()
    pending_items,  \* len(self._pending_items)
    item,           \* the item the loop of DataCollectorAgent.run is at
    item_log,       \* per item of the run, how its iteration ended
    dresult,        \* what DataCollectorAgent.run returned
    chunked,        \* the _chunk_content call that has just returned
    onb,            \* the onboarding agent: its position inside execute(),
                    \* --reset, the section it is at, stored_doc_ids, the
                    \* tasks still to create, the completion marker's id
    race            \* two processes inside _update_task_status: where each
                    \* is, the update it makes, who holds each row's lock,
                    \* who committed last on each row
VARIABLES
    counts,         \* the counters of the Closer run in progress:
                    \* completed_count and partial_count
    handles,        \* the connections psycopg2.connect has returned: per
                    \* agent self.db_conn (0: None), the sessions open at
                    \* the server, and the connect_db or disconnect_db
                    \* call that has just ended
    ingest          \* one DataCollectorAgent instance over several run()
                    \* calls: self._pending_items as a list of item ids,
                    \* the loop's position and counters, what run() returned
VARIABLES
    embed_requests, \* the requests the embedding backend has received:
                    \* who called embed_text and how long the input was
    clearing        \* a process inside _clear_onboarding: its position,
                    \* the rows its two DELETEs have removed in its open
                    \* transaction; and the ids of the documents whose
                    \* doc_type does not start with 'onboarding'

storeVars == <<db_documents, db_embeddings, db_events, agent_runs, nextId, conn>>

harnessVars == <<pc, calls, runOutcome, pending_exc, run_result, outcome>>

memVars == <<last_store, failedDocs, last_search>>

closerVars == <<tasks, cpc, left, last_step, claim_turns, llm_called, cconn,
                cresult, run_failed>>

extraVars == <<counts, handles, ingest, embed_requests, clearing>>

collectorVars == <<config, db_chunks, pending_chunks, nextChunk, dpc,
                   pending_items, item, item_log, dresult, chunked>>

\* ------------------------------------------------------------ connection
NoConn == [status |-> "none", txn |-> "ok", docs |-> {}, embs |-> {}, events |-> {}]

OpenConn == [status |-> "open", txn |-> "ok", docs |-> {}, embs |-> {}, events |-> {}]

\* psycopg2.connect either returns a connection or raises
\* OperationalError (the store is unreachable or refuses the login).
ConnectFaults == {"none", "connect_fails"}

\* connect_db calls psycopg2.connect only when it holds no open connection.
ConnectRaises(c, fault) == c.status # "open" /\ fault = "connect_fails"

connect_db_noop(c) == c

\* connect_db: open a connection unless one is already open.
connect_db(c) == IF c.status # "open" THEN OpenConn ELSE c

\* disconnect_db: close the connection if it is open; the server discards
\* the transaction that was in progress.
disconnect_db(c) ==
    IF c.status = "open"
    THEN [status |-> "closed", txn |-> "ok", docs |-> {}, embs |-> {}, events |-> {}]
    ELSE c

\* A failed statement: the transaction is aborted, its writes are lost.
AbortTxn(c) == [c EXCEPT !.txn = "aborted", !.docs = {}, !.embs = {}, !.events = {}]

\* After conn.commit(): nothing pending.
Committed(c) == [c EXCEPT !.txn = "ok", !.docs = {}, !.embs = {}, !.events = {}]

HoldsUncommitted(c) == c.docs # {} \/ c.embs # {} \/ c.events # {}

\* ------------------------------------------------------------ embeddings
EmbKey(r) == <<r.ref_type, r.ref_id>>

UpsertEmbedding_plainInsert(rows, ref_type, ref_id, vec) ==
    rows \cup {[ref_type |-> ref_type, ref_id |-> ref_id, embedding |-> vec]}

\* INSERT INTO embeddings ... ON CONFLICT (ref_type, ref_id) DO UPDATE SET
\* embedding = EXCLUDED.embedding
UpsertEmbedding(rows, ref_type, ref_id, vec) ==
    {r \in rows : EmbKey(r) # <<ref_type, ref_id>>}
        \cup {[ref_type |-> ref_type, ref_id |-> ref_id, embedding |-> vec]}

RECURSIVE UpsertAll(_, _)
\* The embedding writes of a transaction applied to the committed table.
UpsertAll(rows, writes) ==
    IF writes = {} THEN rows
    ELSE LET w == CHOOSE x \in writes : TRUE
         IN  UpsertAll(UpsertEmbedding(rows, w.ref_type, w.ref_id, w.embedding),
                       writes \ {w})

\* No store_document / search_memory call has just returned.
NoStore == [id |-> 0, fault |-> "none", raised |-> NoExc]

NoSearch == [limit |-> 0, ref_type |-> "", hits |-> <<>>]

\* No search_memory call is in progress.
NoCall == [phase |-> "idle", by |-> "", q |-> 0, limit |-> 0, ref_type |-> "",
           candidates |-> <<>>, next |-> 1, hits |-> <<>>]

\* self.config as _load_config fills it: the provider names ("unknown"
\* stands for any name embed_text / call_llm have no branch for).
Configs == [embedding_provider : {"ollama", "unknown"},
            llm_provider : {"ollama", "unknown"}]

\* Before the agent object is constructed.
NoConfig == [embedding_provider |-> "", llm_provider |-> ""]

\* No _chunk_content call has returned yet.
NoChunked == [content |-> <<>>, chunk_size |-> 0, chunks |-> <<>>]

\* The loop of DataCollectorAgent.run is at no item.
NoItem == [long |-> FALSE, from_model |-> FALSE, chunks |-> <<>>,
           next |-> 1, doc_id |-> 0, faulted |-> FALSE]

\* ----------------------------------------------------------------- tasks
TaskIds == 1..MaxTasks

\* Two Closer processes, one run each.
Closers == {"closer_1", "closer_2"}

\* upsert_task as onboarding calls it: status pending, no completed_at,
\* metadata without verification_notes.
NewTask == [status |-> "pending", completed_at |-> FALSE, notes |-> <<>>]

\* No Closer loop iteration has just run.
NoStep == [kind |-> "none", by |-> "", task_id |-> 0, confidence |-> 0,
           new_status |-> "", called |-> FALSE, fails |-> FALSE, ok |-> FALSE]

\* No verdict received yet.
NoVerdict == [completions |-> 0, partials |-> 0, events |-> 0, flags |-> 0,
              parsed_as |-> "", gathered |-> FALSE]

\* What a run() call of the DataCollector left: the text it returned or
\* the exception that ended it, and the two counts of its summary.
RunResult(text, summary) == [text |-> text, summary |-> summary]

NoResult == RunResult("", [ingested |-> 0, failed |-> 0])

\* No connect_db or disconnect_db call has ended yet.
NoHandleCall == [by |-> "", op |-> "", held |-> "", returned |-> 0,
                 raised |-> NoExc]

\* completed_count and partial_count before the loops have run.
NoCounts == [completed |-> 0, partial |-> 0]

\* ------------------------------------------------------------------ Init
Init ==
    /\ db_documents = {}
    /\ db_embeddings = {}
    /\ db_events = {}
    /\ agent_runs = {}
    /\ nextId = 1
    /\ conn = [a \in Agents |-> NoConn]
    /\ pc = [a \in Agents |-> "idle"]
    /\ calls = [a \in Agents |-> 0]
    /\ runOutcome = [a \in Agents |-> "none"]
    /\ pending_exc = [a \in Agents |-> NoExc]
    /\ run_result = [a \in Agents |-> ""]
    /\ outcome = [a \in Agents |-> "none"]
    /\ last_store = NoStore
    /\ failedDocs = {}
    /\ last_search = NoSearch
    /\ tasks = [t \in TaskIds |-> NewTask]
    /\ cpc = [c \in Closers |-> "start"]
    /\ left = [c \in Closers |-> NoVerdict]
    /\ last_step = NoStep
    /\ claim_turns = FALSE
    /\ llm_called = [c \in Closers |-> FALSE]
    /\ cconn = [c \in Closers |-> NoConn]
    /\ cresult = [c \in Closers |-> "none"]
    /\ run_failed = ""
    /\ search = NoCall
    /\ config = NoConfig
    /\ db_chunks = {}
    /\ pending_chunks = {}
    /\ nextChunk = 1
    /\ dpc = "new"
    /\ pending_items = 0
    /\ item = NoItem
    /\ item_log = <<>>
    /\ dresult = ""
    /\ chunked = NoChunked
    /\ onb = [pc |-> "idle", calls |-> 0, reset |-> FALSE, section |-> 1,
              stored_doc_ids |-> {}, todo |-> 0, complete_doc_id |-> 0,
              exc |-> NoExc, outcome |-> "none"]
    /\ race = [pc |-> [c \in Closers |-> "idle"],
               want |-> [c \in Closers |->
                            [task_id |-> 0, new_status |-> "", fails |-> FALSE]],
               lock |-> [t \in TaskIds |-> ""],
               last_commit |-> [t \in TaskIds |-> ""],
               ok |-> [c \in Closers |-> FALSE]]
    /\ counts = NoCounts
    /\ handles = [db_conn |-> [a \in Agents |-> 0], open |-> {}, next |-> 1,
                  last |-> NoHandleCall]
    /\ ingest = [pc |-> "idle", pending_items |-> <<>>, at |-> 0,
                 processed |-> <<>>, result |-> NoResult, staged |-> FALSE,
                 llm_calls |-> 0, writes |-> 0, runs |-> 0, queued |-> 0]
    /\ embed_requests = <<>>
    /\ clearing = [pc |-> "idle", del_embs |-> {}, del_docs |-> {}, notes |-> {}]

\* ------------------------------------------------------- storage helpers
\* What a helper call did: the connection afterwards, the exception it
\* raised (NoExc: it returned) and whether it reached conn.commit().
Helper(c, raised, commit) == [conn |-> c, raised |-> raised, commit |-> commit]

StoreFaults == {"none", "insert_fails", "embed_fails"}

store_document_placeholderEmbedding(c, id, fault, vec) ==
    IF c.txn = "aborted" THEN Helper(c, InFailedTxn, FALSE)
    ELSE IF fault = "insert_fails" THEN Helper(AbortTxn(c), StoreError, FALSE)
    ELSE IF fault = "embed_fails"
         THEN Helper([c EXCEPT !.docs = @ \cup {id},
                               !.embs = UpsertEmbedding(@, "document", id, 0)],
                     ProviderError, FALSE)
    ELSE Helper([c EXCEPT !.docs = @ \cup {id},
                          !.embs = UpsertEmbedding(@, "document", id, vec)],
                NoExc, TRUE)

\* store_document: INSERT INTO documents, embed_text, upsert the embedding,
\* commit.  No statement is guarded by try/except and nothing rolls back.
store_document(c, id, fault, vec) ==
    IF c.txn = "aborted" THEN Helper(c, InFailedTxn, FALSE)
    ELSE IF fault = "insert_fails" THEN Helper(AbortTxn(c), StoreError, FALSE)
    ELSE IF fault = "embed_fails"
         THEN Helper([c EXCEPT !.docs = @ \cup {id}], ProviderError, FALSE)
    ELSE Helper([c EXCEPT !.docs = @ \cup {id},
                          !.embs = UpsertEmbedding(@, "document", id, vec)],
                NoExc, TRUE)

store_event_indexed(c, id, fault) ==
    IF c.txn = "aborted" THEN Helper(c, InFailedTxn, FALSE)
    ELSE IF fault = "insert_fails" THEN Helper(AbortTxn(c), StoreError, FALSE)
    ELSE Helper([c EXCEPT !.events = @ \cup {id},
                          !.embs = UpsertEmbedding(@, "event", id, 0)],
                NoExc, TRUE)

\* store_event: INSERT INTO events, commit.
store_event(c, id, fault) ==
    IF c.txn = "aborted" THEN Helper(c, InFailedTxn, FALSE)
    ELSE IF fault = "insert_fails" THEN Helper(AbortTxn(c), StoreError, FALSE)
    ELSE Helper([c EXCEPT !.events = @ \cup {id}], NoExc, TRUE)

\* log_run: INSERT INTO agent_runs, commit.
log_run(c) ==
    IF c.txn = "aborted" THEN Helper(c, InFailedTxn, FALSE)
    ELSE Helper(c, NoExc, TRUE)

\* conn.commit() of a helper: the pending writes of the connection reach
\* the committed tables.
CommitWrites(r) ==
    IF r.commit
    THEN /\ db_documents' = db_documents \cup r.conn.docs
         /\ db_embeddings' = UpsertAll(db_embeddings, r.conn.embs)
         /\ db_events' = db_events \cup r.conn.events
    ELSE UNCHANGED <<db_documents, db_embeddings, db_events>>

ConnAfter(r) == IF r.commit THEN Committed(r.conn) ELSE r.conn

\* Whether the INSERT ... RETURNING id of the call consumed the id.
Inserted(r, id) == r.commit \/ id \in r.conn.docs \/ id \in r.conn.events

\* ------------------------------------------------------------- run()
\* DataCollectorAgent.run wraps each item in try/except Exception and goes
\* on; the other agents let the exception leave run().
CatchesItemErrors(a) == a = "data_collector"

\* The summary text run() returns.
RunResults(a) ==
    IF a = "data_collector" THEN {"Ingested items."} ELSE {"Onboarding complete."}

SummaryOf_alwaysStr(result) == IF result = "<None>" THEN "None" ELSE result

\* summary=str(result) if result else ""
SummaryOf(result) == IF result \in {"<None>", ""} THEN "" ELSE result

\* An exception raised by a helper inside run(): caught by the item loop
\* or leaving run() into execute()'s handler.
RaisedInRun(a, exc) ==
    IF exc = NoExc \/ CatchesItemErrors(a)
    THEN UNCHANGED <<pc, runOutcome, pending_exc>>
    ELSE /\ pc' = [pc EXCEPT ![a] = "except"]
         /\ runOutcome' = [runOutcome EXCEPT ![a] = exc]
         /\ pending_exc' = [pending_exc EXCEPT ![a] = exc]

RunStoreDocument(a) ==
    /\ pc[a] = "run"
    /\ nextId <= MaxIds
    /\ \E fault \in StoreFaults, vec \in Vectors :
         LET r == store_document(conn[a], nextId, fault, vec)
         IN  /\ CommitWrites(r)
             /\ conn' = [conn EXCEPT ![a] = ConnAfter(r)]
             /\ nextId' = IF Inserted(r, nextId) THEN nextId + 1 ELSE nextId
             /\ RaisedInRun(a, r.raised)
    /\ UNCHANGED <<agent_runs, calls, run_result, outcome, memVars>>

RunStoreEvent(a) ==
    /\ pc[a] = "run"
    /\ a = "onboarding"
    /\ nextId <= MaxIds
    /\ \E fault \in {"none", "insert_fails"} :
         LET r == store_event(conn[a], nextId, fault)
         IN  /\ CommitWrites(r)
             /\ conn' = [conn EXCEPT ![a] = ConnAfter(r)]
             /\ nextId' = IF r.commit THEN nextId + 1 ELSE nextId
             /\ RaisedInRun(a, r.raised)
    /\ UNCHANGED <<agent_runs, calls, run_result, outcome, memVars>>

\* run() returns a value.
RunReturn(a) ==
    /\ pc[a] = "run"
    /\ \E res \in RunResults(a) : run_result' = [run_result EXCEPT ![a] = res]
    /\ runOutcome' = [runOutcome EXCEPT ![a] = "returned"]
    /\ pc' = [pc EXCEPT ![a] = "log_completed"]
    /\ UNCHANGED <<db_documents, db_embeddings, db_events, agent_runs, nextId,
                   conn, calls, pending_exc, outcome, memVars>>

\* run() raises an Exception that no store statement caused (a provider
\* call outside the item loop).
RunRaise(a) ==
    /\ pc[a] = "run"
    /\ ~CatchesItemErrors(a)
    /\ runOutcome' = [runOutcome EXCEPT ![a] = ProviderError]
    /\ pending_exc' = [pending_exc EXCEPT ![a] = ProviderError]
    /\ pc' = [pc EXCEPT ![a] = "except"]
    /\ UNCHANGED <<db_documents, db_embeddings, db_events, agent_runs, nextId,
                   conn, calls, run_result, outcome, memVars>>

\* run() is ended by KeyboardInterrupt or SystemExit: a BaseException,
\* which `except Exception` does not catch.
RunInterrupt(a) ==
    /\ pc[a] = "run"
    /\ runOutcome' = [runOutcome EXCEPT ![a] = Interrupt]
    /\ pending_exc' = [pending_exc EXCEPT ![a] = Interrupt]
    /\ pc' = [pc EXCEPT ![a] = "finally"]
    /\ UNCHANGED <<db_documents, db_embeddings, db_events, agent_runs, nextId,
                   conn, calls, run_result, outcome, memVars>>

\* ------------------------------------------------------ search_memory
Min(x, y) == IF x <= y THEN x ELSE y

\* The distance the store's <=> operator reports between two vectors.
Distance(q, v) == IF q >= v THEN q - v ELSE v - q

\* 1 - (e.embedding <=> query) AS score
Score(q, v) == 1 - Distance(q, v)

\* ORDER BY e.embedding <=> query LIMIT limit: every ordering of the rows
\* by ascending distance (rows at equal distance in any order), cut at limit.
NearestNeighbours_noLimit(rows, q, limit) ==
    LET n == Cardinality(rows)
    IN  {s \in [1..n -> rows] :
            \A i, j \in 1..n : i < j =>
                /\ s[i] # s[j]
                /\ Distance(q, s[i].embedding) <= Distance(q, s[j].embedding)}

NearestNeighbours(rows, q, limit) ==
    LET n == Min(limit, Cardinality(rows))
    IN  {s \in [1..n -> rows] :
            /\ \A i, j \in 1..n : i < j =>
                   /\ s[i] # s[j]
                   /\ Distance(q, s[i].embedding) <= Distance(q, s[j].embedding)
            /\ \A r \in rows : (\A i \in 1..n : s[i] # r) =>
                   \A i \in 1..n :
                       Distance(q, s[i].embedding) <= Distance(q, r.embedding)}

\* _fetch_content: the table of a ref_type, and whether the row is there.
table_map(ref_type) ==
    CASE ref_type = "document" -> "documents"
      [] ref_type = "document_chunk" -> "document_chunks"
      [] ref_type = "conversation_turn" -> "conversation_turns"
      [] ref_type = "event" -> "events"
      [] ref_type = "task" -> "tasks"
      [] OTHER -> "<none>"

fetch_content_assumesRow(docs, events, ref_type, ref_id) ==
    table_map(ref_type) # "<none>"

fetch_content(docs, events, ref_type, ref_id) ==
    CASE table_map(ref_type) = "documents" -> ref_id \in docs
      [] table_map(ref_type) = "events" -> ref_id \in events
      [] table_map(ref_type) = "tasks" -> ref_id \in DOMAIN tasks
      [] OTHER -> FALSE

RECURSIVE Hydrate(_, _, _, _)
\* The hydration loop: hits in order, those without a content row dropped.
Hydrate(hits, q, docs, events) ==
    IF hits = <<>> THEN <<>>
    ELSE LET h == Head(hits)
             rest == Hydrate(Tail(hits), q, docs, events)
         IN  IF fetch_content(docs, events, h.ref_type, h.ref_id)
             THEN <<[ref_type |-> h.ref_type, ref_id |-> h.ref_id,
                     score |-> Score(q, h.embedding)]>> \o rest
             ELSE rest

\* The rows a statement of connection c sees: committed rows and the
\* connection's own pending writes.
VisibleDocs(c) == db_documents \cup c.docs

VisibleEvents(c) == db_events \cup c.events

VisibleEmbeddings(c) == UpsertAll(db_embeddings, c.embs)

\* The possible results of search_memory(query, limit, ref_type) on
\* connection c (ref_type "" is no filter).
FilterRows_ignored(rows, ref_type) == rows

\* WHERE 1=1 [AND e.ref_type = %s]
FilterRows(rows, ref_type) ==
    {e \in rows : ref_type = "" \/ e.ref_type = ref_type}

search_memory(c, q, limit, ref_type) ==
    LET rows == FilterRows(VisibleEmbeddings(c), ref_type)
    IN  {Hydrate(s, q, VisibleDocs(c), VisibleEvents(c)) :
            s \in NearestNeighbours(rows, q, limit)}

RefTypeFilters == {"", "document", "event"}

\* ------------------------------------------------------------ execute()
AuditRow(a, status, summary) ==
    [agent_name |-> a, call |-> calls[a], status |-> status, summary |-> summary]

RECURSIVE SumCalls(_)
SumCalls(S) ==
    IF S = {} THEN 0
    ELSE LET a == CHOOSE x \in S : TRUE IN calls[a] + SumCalls(S \ {a})

TotalCalls == SumCalls(Agents)

\* try: self.connect_db(); what psycopg2.connect raises enters the handler
\* of execute() before run() is called.
Execute(a) ==
    /\ pc[a] = "idle"
    /\ TotalCalls < MaxCalls
    /\ calls' = [calls EXCEPT ![a] = @ + 1]
    /\ \E fault \in ConnectFaults :
         IF ConnectRaises(conn[a], fault)
         THEN /\ UNCHANGED conn
              /\ pc' = [pc EXCEPT ![a] = "except"]
              /\ pending_exc' = [pending_exc EXCEPT ![a] = OperationalError]
         ELSE /\ conn' = [conn EXCEPT ![a] = connect_db(@)]
              /\ pc' = [pc EXCEPT ![a] = "run"]
              /\ pending_exc' = [pending_exc EXCEPT ![a] = NoExc]
    /\ runOutcome' = [runOutcome EXCEPT ![a] = "none"]
    /\ outcome' = [outcome EXCEPT ![a] = "none"]
    /\ run_result' = [run_result EXCEPT ![a] = ""]
    /\ UNCHANGED <<db_documents, db_embeddings, db_events, agent_runs, nextId,
                   memVars>>

\* self.log_run("completed", summary=str(result) if result else "")
LogRunCompleted(a) ==
    /\ pc[a] = "log_completed"
    /\ LET r == log_run(conn[a])
       IN  /\ CommitWrites(r)
           /\ conn' = [conn EXCEPT ![a] = ConnAfter(r)]
           /\ IF r.raised = NoExc
              THEN /\ agent_runs' = agent_runs \cup
                          {AuditRow(a, "completed", SummaryOf(run_result[a]))}
                   /\ pc' = [pc EXCEPT ![a] = "finally"]
                   /\ UNCHANGED pending_exc
              ELSE /\ UNCHANGED agent_runs
                   /\ pc' = [pc EXCEPT ![a] = "except"]
                   /\ pending_exc' = [pending_exc EXCEPT ![a] = r.raised]
    /\ UNCHANGED <<nextId, calls, runOutcome, run_result, outcome, memVars>>

ExecuteReraise_lastError(orig, audit) == IF audit # NoExc THEN audit ELSE orig

\* The bare `raise` at the end of the handler re-raises the exception the
\* handler was entered with; what log_run raised was swallowed.
ExecuteReraise(orig, audit) == orig

\* except Exception as exc: try: self.log_run("failed", ...) except: pass; raise
LogRunFailed(a) ==
    /\ pc[a] = "except"
    /\ \E fault \in ConnectFaults :
       LET r == IF ConnectRaises(conn[a], fault)
                THEN Helper(conn[a], OperationalError, FALSE)
                ELSE log_run(connect_db(conn[a]))
       IN  /\ CommitWrites(r)
           /\ conn' = [conn EXCEPT ![a] = ConnAfter(r)]
           /\ agent_runs' = IF r.raised = NoExc
                            THEN agent_runs \cup
                                     {AuditRow(a, "failed", pending_exc[a])}
                            ELSE agent_runs
           /\ pending_exc' = [pending_exc EXCEPT ![a] = ExecuteReraise(@, r.raised)]
    /\ pc' = [pc EXCEPT ![a] = "finally"]
    /\ UNCHANGED <<nextId, calls, runOutcome, run_result, outcome, memVars>>

ExecuteFinally_onlyOnSuccess(c, exc) == IF exc = NoExc THEN disconnect_db(c) ELSE c

\* finally: self.disconnect_db()
ExecuteFinally(c, exc) == disconnect_db(c)

\* The finally clause runs and control leaves execute().
Finally(a) ==
    /\ pc[a] = "finally"
    /\ conn' = [conn EXCEPT ![a] = ExecuteFinally(@, pending_exc[a])]
    /\ outcome' = [outcome EXCEPT ![a] =
           IF pending_exc[a] = NoExc THEN "returned" ELSE pending_exc[a]]
    /\ pc' = [pc EXCEPT ![a] = "idle"]
    /\ UNCHANGED <<db_documents, db_embeddings, db_events, agent_runs, nextId,
                   calls, runOutcome, pending_exc, run_result, memVars>>

\* ------------------------------------------------------- specification
Next ==
    /\ \E a \in Agents :
          \/ Execute(a)
          \/ RunStoreDocument(a)
          \/ RunStoreEvent(a)
          \/ RunReturn(a)
          \/ RunRaise(a)
          \/ RunInterrupt(a)
          \/ LogRunCompleted(a)
          \/ LogRunFailed(a)
          \/ Finally(a)
    /\ UNCHANGED <<closerVars, search, collectorVars, onb, race, extraVars>>

vars == <<storeVars, harnessVars, memVars, closerVars, search, collectorVars,
          onb, race, extraVars>>

Spec == Init /\ [][Next]_vars

\* --------------------------------------------- helper calls, any order
\* The storage helpers and search_memory called in any order on the agents'
\* connections: every helper opens the connection itself (connect_db) and
\* the process may end at any point, which closes it.
MemVectors == Vectors

MemStoreDocument(a) ==
    /\ nextId <= MaxIds
    /\ \E fault \in StoreFaults, vec \in MemVectors :
         LET r == store_document(connect_db(conn[a]), nextId, fault, vec)
         IN  /\ CommitWrites(r)
             /\ conn' = [conn EXCEPT ![a] = ConnAfter(r)]
             /\ nextId' = IF Inserted(r, nextId) THEN nextId + 1 ELSE nextId
             /\ last_store' = [id |-> IF r.raised = NoExc THEN nextId ELSE 0,
                               fault |-> fault, raised |-> r.raised]
             /\ failedDocs' = IF r.raised = ProviderError
                              THEN failedDocs \cup {nextId} ELSE failedDocs
    /\ last_search' = NoSearch
    /\ UNCHANGED <<agent_runs, harnessVars>>

MemStoreEvent(a) ==
    /\ nextId <= MaxIds
    /\ \E fault \in {"none", "insert_fails"} :
         LET r == store_event(connect_db(conn[a]), nextId, fault)
         IN  /\ CommitWrites(r)
             /\ conn' = [conn EXCEPT ![a] = ConnAfter(r)]
             /\ nextId' = IF Inserted(r, nextId) THEN nextId + 1 ELSE nextId
    /\ last_store' = NoStore
    /\ last_search' = NoSearch
    /\ UNCHANGED <<agent_runs, harnessVars, failedDocs>>

MemLogRun(a) ==
    /\ LET r == log_run(connect_db(conn[a]))
       IN  /\ CommitWrites(r)
           /\ conn' = [conn EXCEPT ![a] = ConnAfter(r)]
           /\ agent_runs' = IF r.raised = NoExc
                            THEN agent_runs \cup {AuditRow(a, "completed", "")}
                            ELSE agent_runs
    /\ last_store' = NoStore
    /\ last_search' = NoSearch
    /\ UNCHANGED <<nextId, harnessVars, failedDocs>>

\* Every call search_memory(query, limit, ref_type) on connection c with
\* what it can return.
SearchCalls(c) ==
    UNION {{[limit |-> limit, ref_type |-> ref_type, hits |-> res] :
               res \in search_memory(c, q, limit, ref_type)} :
           q \in MemVectors, limit \in 1..MaxIds, ref_type \in RefTypeFilters}

MemSearchMemory(a) ==
    /\ connect_db(conn[a]).txn = "ok"
    /\ last_search' \in SearchCalls(connect_db(conn[a]))
    /\ conn' = [conn EXCEPT ![a] = connect_db(@)]
    /\ last_store' = NoStore
    /\ UNCHANGED <<db_documents, db_embeddings, db_events, agent_runs, nextId,
                   harnessVars, failedDocs>>

MemDisconnect(a) ==
    /\ conn[a].status = "open"
    /\ conn' = [conn EXCEPT ![a] = disconnect_db(@)]
    /\ last_store' = NoStore
    /\ last_search' = NoSearch
    /\ UNCHANGED <<db_documents, db_embeddings, db_events, agent_runs, nextId,
                   harnessVars, failedDocs>>

NextMemory ==
    /\ \E a \in Agents :
          \/ MemStoreDocument(a)
          \/ MemStoreEvent(a)
          \/ MemLogRun(a)
          \/ MemSearchMemory(a)
          \/ MemDisconnect(a)
    /\ UNCHANGED <<closerVars, search, collectorVars, onb, race, extraVars>>

SpecMemory == Init /\ [][NextMemory]_vars

\* ------------------------------------------------------------ the Closer
\* Confidence in hundredths: 0.69, 0.7 and 1.0.
Confidences == {69, 70, 100}

\* confidence >= 0.7
ConfidenceThreshold == 70

\* Task ids a verdict can name: the model's output is free text, so any
\* task, a well-formed id that matches no row (MissingTask), or none.
MissingTask == MaxTasks + 1

NoTaskId == 0

VerdictTaskIds == TaskIds \cup {MissingTask, NoTaskId}

\* new_status of a partial update; "in_progress" is the default.
PartialStatuses == {"in_progress", "pending", "done"}

\* f"Verified by Closer: {evidence}" and f"Partial progress by Closer: {notes}"
VerifiedNote(evidence) == <<"Verified by Closer: ", evidence>>

PartialNote(notes) == <<"Partial progress by Closer: ", notes>>

\* The text of a note is the concatenation of its parts.
NoteIsEmpty(note) == \A i \in 1..Len(note) : note[i] = ""

MeetsThreshold_strict(confidence) == confidence > ConfidenceThreshold

\* if confidence >= 0.7
MeetsThreshold(confidence) == confidence >= ConfidenceThreshold

UpdateFailed_noRollback(c) == AbortTxn(c)

\* except Exception: logger.warning(...); conn.rollback(); return False
UpdateFailed(c) == Committed(c)

\* _update_task_status: one UPDATE ... WHERE id = task_id and a commit;
\* on an exception a rollback.  Returns the table and whether it returned
\* True.  An id that matches no row updates nothing and still returns True.
update_task_status(tbl, task_id, new_status, notes, fails) ==
    IF fails THEN [tasks |-> tbl, ok |-> FALSE]
    ELSE IF task_id \notin DOMAIN tbl THEN [tasks |-> tbl, ok |-> TRUE]
    ELSE IF new_status \in {"done", "completed"}
         THEN [tasks |-> [tbl EXCEPT ![task_id] =
                             [status |-> new_status, completed_at |-> TRUE,
                              notes |-> notes]],
               ok |-> TRUE]
    ELSE [tasks |-> [tbl EXCEPT ![task_id].status = new_status,
                                ![task_id].notes = notes],
          ok |-> TRUE]

\* The connection after _update_task_status: committed, or what the
\* except branch leaves.
ConnAfterUpdate(c, ok) == IF ok THEN Committed(c) ELSE UpdateFailed(c)

\* The UPDATE raises when the store rejects it or when the transaction is
\* already aborted.
UpdateRaises(c, fails) == fails \/ c.txn = "aborted"

CloserUnchangedOthers == UNCHANGED <<harnessVars, memVars>>

\* A row of events as the Closer writes it.
EventRow(id, event_type) == [id |-> id, event_type |-> event_type]

\* The return values of run().
NoClaimsSummary == "No completion claims found."

ProcessedSummary == "Processed claims."

\* A user turn that matches a completion marker enters conversation_turns
\* (before the first run starts: every run sees the turns the run before
\* it saw).
AddClaimTurn ==
    /\ ~claim_turns
    /\ \A c \in Closers : cpc[c] = "start"
    /\ claim_turns' = TRUE
    /\ last_step' = NoStep
    /\ UNCHANGED <<tasks, cpc, left, llm_called, cconn, cresult, storeVars>>
    /\ CloserUnchangedOthers

ReturnsEarly_never(claims) == FALSE

\* if not claims: return "No completion claims found."
ReturnsEarly(claims) == ~claims

\* self._get_all_agent_context() and self.get_events_flagged_for_me(): the
\* peers' recent events and the events flagged for this agent, two SELECTs
\* on events that write nothing and return lists.
GatherReturns(c) == c.status = "open" /\ c.txn = "ok"

\* run(): the four fetches; without a completion-claim turn it returns,
\* with one it gathers the cross-agent context.
CloserFetch(c) ==
    /\ cpc[c] = "start"
    /\ cconn' = [cconn EXCEPT ![c] = connect_db(@)]
    /\ IF ReturnsEarly(claim_turns)
       THEN /\ cpc' = [cpc EXCEPT ![c] = "done"]
            /\ cresult' = [cresult EXCEPT ![c] = NoClaimsSummary]
            /\ UNCHANGED left
       ELSE /\ cpc' = [cpc EXCEPT ![c] = "call_llm"]
            /\ left' = [left EXCEPT ![c].gathered =
                            GatherReturns(connect_db(cconn[c]))]
            /\ UNCHANGED cresult
    /\ last_step' = NoStep
    /\ UNCHANGED <<tasks, claim_turns, llm_called, storeVars>>
    /\ CloserUnchangedOthers

\* What the model answers: a JSON object with the four lists (bare or in a
\* fenced code block), text that is no JSON, or JSON that is no object.
\* Only the lengths of the lists are kept; the entries are drawn when the
\* loops reach them.
Response(kind, nc, np, ne, nf) ==
    [kind |-> kind, completions |-> nc, partials |-> np, events |-> ne,
     flags |-> nf]

Verdicts(maxEvents) ==
    {Response(kind, nc, np, ne, nf) :
        kind \in {"object", "fenced_object"},
        nc \in 0..MaxVerdict, np \in 0..MaxVerdict,
        ne \in 0..maxEvents, nf \in 0..maxEvents}

\* Verdicts that name tasks only.
TaskResponses ==
    {r \in Verdicts(0) : r.kind = "object"
                         /\ r.completions + r.partials <= MaxVerdict}

Responses ==
    {r \in Verdicts(MaxVerdict) :
        r.completions + r.partials + r.events + r.flags <= MaxVerdict}
    \cup {Response(kind, 0, 0, 0, 0) : kind \in {"text", "array"}}

\* cleaned.startswith("```") ... cleaned.endswith("```"): the fence is cut.
StripFence(raw) ==
    IF raw.kind = "fenced_object" THEN [raw EXCEPT !.kind = "object"] ELSE raw

EmptyVerdict == [type |-> "dict", completions |-> 0, partials |-> 0,
                 events |-> 0, flags |-> 0]

\* _parse_response: json.loads of the cleaned text; JSONDecodeError gives
\* the empty verdict; valid JSON is returned as it is, object or not.
parse_response(raw) ==
    LET cleaned == StripFence(raw)
    IN  IF cleaned.kind = "text" THEN EmptyVerdict
        ELSE [type |-> IF cleaned.kind = "object" THEN "dict" ELSE "list",
              completions |-> cleaned.completions,
              partials |-> cleaned.partials,
              events |-> cleaned.events, flags |-> cleaned.flags]

\* run(): call_llm, _parse_response and the four parsed.get(...); a parsed
\* value that is no dict has no get().
CallLLM(c, responses) ==
    /\ cpc[c] = "call_llm"
    /\ llm_called' = [llm_called EXCEPT ![c] = TRUE]
    /\ \E raw \in responses :
         LET parsed == parse_response(raw)
         IN  IF parsed.type = "dict"
             THEN /\ left' = [left EXCEPT ![c] =
                        [completions |-> parsed.completions,
                         partials |-> parsed.partials,
                         events |-> parsed.events, flags |-> parsed.flags,
                         parsed_as |-> StripFence(raw).kind,
                         gathered |-> left[c].gathered]]
                  /\ cpc' = [cpc EXCEPT ![c] = "completions"]
                  /\ UNCHANGED cresult
             ELSE /\ left' = [left EXCEPT ![c].parsed_as = StripFence(raw).kind]
                  /\ cpc' = [cpc EXCEPT ![c] = "done"]
                  /\ cresult' = [cresult EXCEPT ![c] = AttributeError]
    /\ last_step' = NoStep
    /\ UNCHANGED <<tasks, claim_turns, cconn, storeVars>>
    /\ CloserUnchangedOthers

CloserCallLLM(c) == CallLLM(c, TaskResponses)

CloserCallLLMAny(c) == CallLLM(c, Responses)

\* One iteration of the loop of _process_verified_completions.
CloserProcessCompletion(c) ==
    /\ cpc[c] = "completions"
    /\ left[c].completions > 0
    /\ \E task_id \in VerdictTaskIds, confidence \in Confidences,
          evidence \in {""} :
       LET called == task_id # NoTaskId /\ MeetsThreshold(confidence)
       IN  \E fails \in (IF called THEN BOOLEAN ELSE {FALSE}) :
         LET r == IF called
                  THEN update_task_status(tasks, task_id, "done",
                                          VerifiedNote(evidence),
                                          UpdateRaises(cconn[c], fails))
                  ELSE [tasks |-> tasks, ok |-> FALSE]
         IN  /\ tasks' = r.tasks
             /\ cconn' = IF called
                         THEN [cconn EXCEPT ![c] = ConnAfterUpdate(@, r.ok)]
                         ELSE cconn
             /\ last_step' = [kind |-> "completion", by |-> c,
                              task_id |-> task_id, confidence |-> confidence,
                              new_status |-> "done", called |-> called,
                              fails |-> fails, ok |-> r.ok]
             /\ left' = [left EXCEPT ![c].completions = @ - 1]
    /\ UNCHANGED <<cpc, claim_turns, llm_called, cresult, storeVars>>
    /\ CloserUnchangedOthers

\* _process_verified_completions returns; _process_partial_updates starts.
CloserCompletionsDone(c) ==
    /\ cpc[c] = "completions"
    /\ left[c].completions = 0
    /\ cpc' = [cpc EXCEPT ![c] = "partials"]
    /\ last_step' = NoStep
    /\ UNCHANGED <<tasks, left, claim_turns, llm_called, cconn, cresult,
                   storeVars>>
    /\ CloserUnchangedOthers

\* One iteration of the loop of _process_partial_updates.
CloserProcessPartial(c) ==
    /\ cpc[c] = "partials"
    /\ left[c].partials > 0
    /\ \E task_id \in VerdictTaskIds, new_status \in PartialStatuses,
          notes \in {""} :
       LET called == task_id # NoTaskId
       IN  \E fails \in (IF called THEN BOOLEAN ELSE {FALSE}) :
         LET r == IF called
                  THEN update_task_status(tasks, task_id, new_status,
                                          PartialNote(notes),
                                          UpdateRaises(cconn[c], fails))
                  ELSE [tasks |-> tasks, ok |-> FALSE]
         IN  /\ tasks' = r.tasks
             /\ cconn' = IF called
                         THEN [cconn EXCEPT ![c] = ConnAfterUpdate(@, r.ok)]
                         ELSE cconn
             /\ last_step' = [kind |-> "partial", by |-> c,
                              task_id |-> task_id, confidence |-> 0,
                              new_status |-> new_status, called |-> called,
                              fails |-> fails, ok |-> r.ok]
             /\ left' = [left EXCEPT ![c].partials = @ - 1]
    /\ UNCHANGED <<cpc, claim_turns, llm_called, cresult, storeVars>>
    /\ CloserUnchangedOthers

\* _process_partial_updates returns; _store_verification_events starts.
CloserPartialsDone(c) ==
    /\ cpc[c] = "partials"
    /\ left[c].partials = 0
    /\ cpc' = [cpc EXCEPT ![c] = "events"]
    /\ last_step' = NoStep
    /\ UNCHANGED <<tasks, left, claim_turns, llm_called, cconn, cresult,
                   storeVars>>
    /\ CloserUnchangedOthers

\* One iteration of the loop of _store_verification_events: store_event
\* inside try/except Exception, which logs and goes on.
CloserStoreVerificationEvent(c) ==
    /\ cpc[c] = "events"
    /\ left[c].events > 0
    /\ \E fault \in {"none", "insert_fails"} :
         LET r == store_event(cconn[c], EventRow(nextId, "verification"), fault)
         IN  /\ CommitWrites(r)
             /\ cconn' = [cconn EXCEPT ![c] = ConnAfter(r)]
             /\ nextId' = IF r.commit THEN nextId + 1 ELSE nextId
             /\ last_step' = [kind |-> "event", by |-> c, task_id |-> NoTaskId,
                              confidence |-> 0, new_status |-> "",
                              called |-> TRUE, fails |-> fault # "none",
                              ok |-> r.raised = NoExc]
             /\ left' = [left EXCEPT ![c].events = @ - 1]
    /\ UNCHANGED <<tasks, cpc, claim_turns, llm_called, cresult, agent_runs,
                   conn>>
    /\ CloserUnchangedOthers

\* _store_verification_events returns; the loop over the flags starts.
CloserEventsDone(c) ==
    /\ cpc[c] = "events"
    /\ left[c].events = 0
    /\ cpc' = [cpc EXCEPT ![c] = "flags"]
    /\ last_step' = NoStep
    /\ UNCHANGED <<tasks, left, claim_turns, llm_called, cconn, cresult,
                   storeVars>>
    /\ CloserUnchangedOthers

\* One iteration of `for flag in flags`: store_event, not guarded, so what
\* it raises leaves run().
CloserStoreFollowUp(c) ==
    /\ cpc[c] = "flags"
    /\ left[c].flags > 0
    /\ \E fault \in {"none", "insert_fails"} :
         LET r == store_event(cconn[c], EventRow(nextId, "follow_up"), fault)
         IN  /\ CommitWrites(r)
             /\ cconn' = [cconn EXCEPT ![c] = ConnAfter(r)]
             /\ nextId' = IF r.commit THEN nextId + 1 ELSE nextId
             /\ last_step' = [kind |-> "flag", by |-> c, task_id |-> NoTaskId,
                              confidence |-> 0, new_status |-> "",
                              called |-> TRUE, fails |-> fault # "none",
                              ok |-> r.raised = NoExc]
             /\ IF r.raised = NoExc
                THEN /\ left' = [left EXCEPT ![c].flags = @ - 1]
                     /\ UNCHANGED <<cpc, cresult>>
                ELSE /\ UNCHANGED left
                     /\ cpc' = [cpc EXCEPT ![c] = "done"]
                     /\ cresult' = [cresult EXCEPT ![c] = r.raised]
    /\ UNCHANGED <<tasks, claim_turns, llm_called, agent_runs, conn>>
    /\ CloserUnchangedOthers

\* run() builds its summary and returns it.
CloserReturn(c) ==
    /\ cpc[c] = "flags"
    /\ left[c].flags = 0
    /\ cpc' = [cpc EXCEPT ![c] = "done"]
    /\ cresult' = [cresult EXCEPT ![c] = ProcessedSummary]
    /\ last_step' = NoStep
    /\ UNCHANGED <<tasks, left, claim_turns, llm_called, cconn, storeVars>>
    /\ CloserUnchangedOthers

\* execute() after run(): the finally clause closes the connection and the
\* locals of run() are gone.
CloserExit(c) ==
    /\ cpc[c] = "done"
    /\ cpc' = [cpc EXCEPT ![c] = "exited"]
    /\ cconn' = [cconn EXCEPT ![c] = disconnect_db(@)]
    /\ left' = [left EXCEPT ![c] = NoVerdict]
    /\ last_step' = NoStep
    /\ UNCHANGED <<tasks, claim_turns, llm_called, cresult, storeVars>>
    /\ CloserUnchangedOthers

\* Two Closer processes at the same time, on verdicts that name tasks.
NextCloser ==
    /\ \/ AddClaimTurn
       \/ \E c \in Closers :
             \/ CloserFetch(c)
             \/ CloserCallLLM(c)
             \/ CloserProcessCompletion(c)
             \/ CloserCompletionsDone(c)
             \/ CloserProcessPartial(c)
             \/ CloserPartialsDone(c)
             \/ CloserEventsDone(c)
             \/ CloserReturn(c)
             \/ CloserExit(c)
    /\ UNCHANGED <<run_failed, search, collectorVars, onb, race, extraVars>>

SpecCloser == Init /\ [][NextCloser]_vars

\* The Closer run twice in succession: the second run starts when the
\* first has left run().
InSuccession(c) == c = "closer_1" \/ cpc["closer_1"] = "exited"

\* The history of the run in progress: the kind of its last entry whose
\* write failed, forgotten when the next run starts.
RecordFailure ==
    run_failed' = IF last_step'.called /\ ~last_step'.ok THEN last_step'.kind
                  ELSE IF \E c \in Closers : cpc[c] = "start" /\ cpc'[c] # "start"
                       THEN ""
                  ELSE run_failed

NextCloserRun ==
    /\ \/ AddClaimTurn
       \/ \E c \in Closers :
             /\ InSuccession(c)
             /\ \/ CloserFetch(c)
                \/ CloserCallLLMAny(c)
                \/ CloserProcessCompletion(c)
                \/ CloserCompletionsDone(c)
                \/ CloserProcessPartial(c)
                \/ CloserPartialsDone(c)
                \/ CloserStoreVerificationEvent(c)
                \/ CloserEventsDone(c)
                \/ CloserStoreFollowUp(c)
                \/ CloserReturn(c)
                \/ CloserExit(c)
    /\ RecordFailure
    /\ UNCHANGED <<search, collectorVars, onb, race, extraVars>>

SpecCloserRun == Init /\ [][NextCloserRun]_vars

\* updated = 0 when a loop starts and `updated += 1` whenever
\* _update_task_status returned True; run() keeps the two results as
\* completed_count and partial_count and formats them into its summary.
Count(c) ==
    counts' = IF cpc[c] = "start" THEN NoCounts
              ELSE IF last_step'.by = c /\ last_step'.ok
                      /\ last_step'.kind = "completion"
                   THEN [counts EXCEPT !.completed = @ + 1]
              ELSE IF last_step'.by = c /\ last_step'.ok
                      /\ last_step'.kind = "partial"
                   THEN [counts EXCEPT !.partial = @ + 1]
              ELSE counts

\* One Closer run after the other, each with its counters.
NextCloserCounts ==
    /\ \/ AddClaimTurn /\ UNCHANGED counts
       \/ \E c \in Closers :
             /\ InSuccession(c)
             /\ \/ CloserFetch(c)
                \/ CloserCallLLM(c)
                \/ CloserProcessCompletion(c)
                \/ CloserCompletionsDone(c)
                \/ CloserProcessPartial(c)
                \/ CloserPartialsDone(c)
                \/ CloserEventsDone(c)
                \/ CloserReturn(c)
                \/ CloserExit(c)
             /\ Count(c)
    /\ UNCHANGED <<run_failed, search, collectorVars, onb, race, handles,
                   ingest, embed_requests, clearing>>

SpecCloserCounts == Init /\ [][NextCloserCounts]_vars

\* ------------------------------------- search_memory beside the writers
\* search_memory statement by statement (the nearest-neighbour SELECT,
\* then one _fetch_content SELECT per hit) while other processes write:
\* the onboarding agent stores its documents and clears them again, and
\* the rows of the other content types are embedded by the other writers
\* of the shared store.
\* The limits search_memory is called with.
SearchLimits == {1, 2}

\* Keys other writers embed: a task, a task whose row is gone, and a
\* ref_type that is none of the five content types.
ForeignKeys == {<<"task", 1>>, <<"task", MissingTask>>, <<"note", 1>>}

\* The vector the other writers' rows carry.
ForeignVectors == {0}

\* An embedding keyed to a row this program does not write.
ForeignEmbedding ==
    /\ \E k \in ForeignKeys, vec \in ForeignVectors :
         /\ \A e \in db_embeddings : EmbKey(e) # k
         /\ db_embeddings' = UpsertEmbedding(db_embeddings, k[1], k[2], vec)
    /\ search' = IF search.phase = "returned" THEN NoCall ELSE search
    /\ UNCHANGED <<db_documents, db_events, agent_runs, nextId, conn,
                   harnessVars, memVars, closerVars>>

\* The onboarding agent stores a section summary with store_document.
StoreOnboardingDocument(a) ==
    /\ a = "onboarding"
    /\ search.by # a
    /\ nextId <= MaxIds
    /\ \E vec \in Vectors :
         LET r == store_document(connect_db(conn[a]), nextId, "none", vec)
         IN  /\ CommitWrites(r)
             /\ conn' = [conn EXCEPT ![a] = ConnAfter(r)]
             /\ nextId' = IF Inserted(r, nextId) THEN nextId + 1 ELSE nextId
    /\ search' = IF search.phase = "returned" THEN NoCall ELSE search
    /\ UNCHANGED <<agent_runs, harnessVars, memVars, closerVars>>

\* _clear_onboarding: DELETE the embeddings of the onboarding documents,
\* DELETE the onboarding documents, commit.  Every document of this
\* specification is an onboarding document.
ClearOnboarding(a) ==
    /\ a = "onboarding"
    /\ search.by # a
    /\ db_documents # {}
    /\ db_embeddings' = {e \in db_embeddings :
                            ~(e.ref_type = "document" /\ e.ref_id \in db_documents)}
    /\ db_documents' = {}
    /\ conn' = [conn EXCEPT ![a] = Committed(connect_db(@))]
    /\ search' = IF search.phase = "returned" THEN NoCall ELSE search
    /\ UNCHANGED <<db_events, agent_runs, nextId, harnessVars, memVars,
                   closerVars>>

SearchFilters == {"", "document", "task"}

\* search_memory up to cur.fetchall(): the nearest-neighbour SELECT.
SearchQuery(a) ==
    /\ a # "onboarding"
    /\ search.phase # "hydrating"
    /\ connect_db(conn[a]).txn = "ok"
    /\ \E q \in Vectors, limit \in SearchLimits, ref_type \in SearchFilters :
         \E s \in NearestNeighbours(
                      FilterRows(VisibleEmbeddings(connect_db(conn[a])), ref_type),
                      q, limit) :
            search' = [phase |-> "hydrating", by |-> a, q |-> q,
                       limit |-> limit, ref_type |-> ref_type,
                       candidates |-> s, next |-> 1, hits |-> <<>>]
    /\ conn' = [conn EXCEPT ![a] = connect_db(@)]
    /\ UNCHANGED <<db_documents, db_embeddings, db_events, agent_runs, nextId,
                   harnessVars, memVars, closerVars>>

\* One iteration of the hydration loop: _fetch_content and, when it found
\* the row, enriched.append({**row, **content}).
SearchFetch(a) ==
    /\ search.phase = "hydrating"
    /\ search.by = a
    /\ search.next <= Len(search.candidates)
    /\ LET h == search.candidates[search.next]
       IN  search' = [search EXCEPT
              !.next = @ + 1,
              !.hits = IF fetch_content(VisibleDocs(conn[a]),
                                        VisibleEvents(conn[a]),
                                        h.ref_type, h.ref_id)
                       THEN Append(@, [ref_type |-> h.ref_type,
                                       ref_id |-> h.ref_id,
                                       score |-> Score(search.q, h.embedding)])
                       ELSE @]
    /\ UNCHANGED <<storeVars, harnessVars, memVars, closerVars>>

\* cur.close(); return enriched
SearchReturn(a) ==
    /\ search.phase = "hydrating"
    /\ search.by = a
    /\ search.next > Len(search.candidates)
    /\ search' = [search EXCEPT !.phase = "returned", !.by = ""]
    /\ UNCHANGED <<storeVars, harnessVars, memVars, closerVars>>

NextSearch ==
    /\ \/ ForeignEmbedding
       \/ \E a \in Agents :
             \/ StoreOnboardingDocument(a)
             \/ ClearOnboarding(a)
             \/ SearchQuery(a)
             \/ SearchFetch(a)
             \/ SearchReturn(a)
    /\ UNCHANGED <<collectorVars, onb, race, extraVars>>

SpecSearch == Init /\ [][NextSearch]_vars

\* ------------------------------------------------------- DataCollector
\* _DEFAULT_CHUNK_SIZE: the chunk target, in characters.
DEFAULT_CHUNK_SIZE == 3000

\* A paragraph of a content (an element of content.split("\n\n")): its
\* length and whether it holds anything but whitespace.
Paragraphs ==
    {[len |-> 0, text |-> FALSE], [len |-> 2, text |-> FALSE],
     [len |-> 3, text |-> TRUE], [len |-> 3332, text |-> TRUE],
     [len |-> 9996, text |-> TRUE], [len |-> 10000, text |-> TRUE]}

\* A content is the sequence of its paragraphs.
Contents == UNION {[1..n -> Paragraphs] : n \in 1..MaxParas}

RECURSIVE SumLen(_, _)
SumLen(content, i) ==
    IF i > Len(content) THEN 0 ELSE content[i].len + SumLen(content, i + 1)

\* len(content): the paragraphs and the "\n\n" between them.
ContentLen(content) == SumLen(content, 1) + 2 * (Len(content) - 1)

\* {"content": current_chunk.strip(), ...}: "" when the chunk holds only
\* whitespace; paras are the positions of the paragraphs joined in it.
ChunkOf(current_chunk) ==
    [content |-> IF current_chunk.text THEN "text" ELSE "",
     paras |-> current_chunk.paras]

\* current_chunk = ""
EmptyChunk == [len |-> 0, text |-> FALSE, paras |-> <<>>]

StartChunk_dropped(para, i) == EmptyChunk

\* current_chunk = para
StartChunk(para, i) == [len |-> para.len, text |-> para.text, paras |-> <<i>>]

RECURSIVE ChunkLoop(_, _, _, _, _)
\* The loop over the paragraphs and the flush after it.
ChunkLoop(paragraphs, i, chunks, current_chunk, chunk_size) ==
    IF i > Len(paragraphs)
    THEN IF current_chunk.text THEN Append(chunks, ChunkOf(current_chunk))
         ELSE chunks
    ELSE LET para == paragraphs[i]
         IN  IF current_chunk.len + para.len + 2 > chunk_size
                /\ current_chunk.len > 0
             THEN ChunkLoop(paragraphs, i + 1,
                            Append(chunks, ChunkOf(current_chunk)),
                            StartChunk(para, i), chunk_size)
             ELSE ChunkLoop(paragraphs, i + 1, chunks,
                            IF current_chunk.len > 0
                            THEN [len |-> current_chunk.len + 2 + para.len,
                                  text |-> current_chunk.text \/ para.text,
                                  paras |-> Append(current_chunk.paras, i)]
                            ELSE StartChunk(para, i),
                            chunk_size)

\* _chunk_content: nothing for a content within the target, else the
\* paragraphs packed greedily.
chunk_content(content, chunk_size) ==
    IF ContentLen(content) <= chunk_size THEN <<>>
    ELSE ChunkLoop(content, 1, <<>>, EmptyChunk, chunk_size)

\* A call of _chunk_content with the default target.
ChunkContent ==
    /\ chunked = NoChunked
    /\ \E content \in Contents :
          chunked' = [content |-> content, chunk_size |-> DEFAULT_CHUNK_SIZE,
                      chunks |-> chunk_content(content, DEFAULT_CHUNK_SIZE)]
    /\ UNCHANGED <<config, db_chunks, pending_chunks, nextChunk, dpc,
                   pending_items, item, item_log, dresult, onb, race,
                   extraVars>>
    /\ UNCHANGED <<storeVars, harnessVars, memVars, closerVars, search>>

SpecChunking == Init /\ [][ChunkContent]_vars

\* The chunk lists a normalization response can carry: each chunk's
\* content is "" (empty or whitespace) or text.
SuppliedChunks ==
    UNION {[1..n -> {[content |-> ""], [content |-> "text"]}] :
              n \in 0..MaxChunks}

\* The contents the DataCollector's items carry: within the target;
\* beyond it in one paragraph; a blank paragraph before a long one; three
\* paragraphs that fill a chunk each.
SampleContents ==
    {<<[len |-> 3, text |-> TRUE]>>,
     <<[len |-> 10000, text |-> TRUE]>>,
     <<[len |-> 2, text |-> FALSE], [len |-> 9996, text |-> TRUE]>>,
     <<[len |-> 3332, text |-> TRUE], [len |-> 3332, text |-> TRUE],
       [len |-> 3332, text |-> TRUE]>>}

\* The contents a response that supplies chunks carries: one within the
\* target and one beyond it.
ShortAndLong ==
    {<<[len |-> 3, text |-> TRUE]>>, <<[len |-> 10000, text |-> TRUE]>>}

\* What _normalize_with_llm returns: the parsed response, or the fallback
\* (chunks: []) when the response is not JSON.
Normalized ==
    {[content |-> c, chunks |-> <<>>] : c \in SampleContents}
        \cup {[content |-> c, chunks |-> s] :
                 c \in ShortAndLong, s \in SuppliedChunks \ {<<>>}}

\* chunks = normalized.get("chunks") or self._chunk_content(content)
ChunksOf(normalized) ==
    IF normalized.chunks # <<>> THEN normalized.chunks
    ELSE LET chunks == chunk_content(normalized.content, DEFAULT_CHUNK_SIZE)
         IN  [i \in DOMAIN chunks |-> [content |-> chunks[i].content]]

RECURSIVE NonEmpty(_, _)
\* The number of chunks of the list the chunk loop does not skip.
NonEmpty(chunks, i) ==
    IF i > Len(chunks) THEN 0
    ELSE (IF chunks[i].content # "" THEN 1 ELSE 0) + NonEmpty(chunks, i + 1)

\* embed_text / call_llm with a provider name they do not know raise
\* ValueError before any request is made.
UnknownProvider(provider) == provider = "unknown"

\* The exception a failing embed_text call raises.
EmbedError == IF UnknownProvider(config.embedding_provider) THEN ValueError
              ELSE ProviderError

\* The faults a store_document / chunk write can meet: with an unknown
\* embedding provider every embed_text call fails.
WriteFaults ==
    IF UnknownProvider(config.embedding_provider)
    THEN {"insert_fails", "embed_fails"} ELSE StoreFaults

\* The vectors embed_text returns to the DataCollector.
CollectorVectors == {0}

\* The entry of item_log for the iteration that has just ended.
LogEntry(doc_id, failed, faulted) ==
    [doc_id |-> doc_id, long |-> item.long, from_model |-> item.from_model,
     stored |-> NonEmpty(item.chunks, 1), failed |-> failed,
     faulted |-> faulted]

\* f"Ingested {ingested} items, {failed} failures."
Summary(log) ==
    [ingested |-> Cardinality({i \in DOMAIN log : log[i].failed = NoExc}),
     failed |-> Cardinality({i \in DOMAIN log : log[i].failed # NoExc})]

\* The end of an iteration of the loop of run().  The except clause counts
\* the failure and rolls nothing back.  After the last item run() clears
\* the queue and returns the summary.
NextItem(entry) ==
    /\ item_log' = Append(item_log, entry)
    /\ item' = NoItem
    /\ IF Len(item_log) + 1 < pending_items
       THEN /\ dpc' = "normalize"
            /\ UNCHANGED <<pending_items, dresult>>
       ELSE /\ dpc' = "log_completed"
            /\ pending_items' = 0
            /\ dresult' = Summary(Append(item_log, entry))

\* DataCollectorAgent.__init__: self.config = self._load_config()
LoadConfig ==
    /\ dpc = "new"
    /\ config' \in Configs
    /\ dpc' = "idle"
    /\ UNCHANGED <<db_chunks, pending_chunks, nextChunk, pending_items, item,
                   item_log, dresult>>
    /\ UNCHANGED <<storeVars, harnessVars, memVars, closerVars, search, chunked, onb,
                   race>>

\* queue_item
QueueItem ==
    /\ dpc = "idle"
    /\ pending_items < MaxItems
    /\ pending_items' = pending_items + 1
    /\ UNCHANGED <<config, db_chunks, pending_chunks, nextChunk, dpc, item,
                   item_log, dresult>>
    /\ UNCHANGED <<storeVars, harnessVars, memVars, closerVars, search, chunked, onb,
                   race>>

\* execute(): connect_db, then run() up to its loop; with nothing queued
\* run() returns at once.
CollectorExecute ==
    /\ dpc = "idle"
    /\ conn' = [conn EXCEPT !["data_collector"] = connect_db(@)]
    /\ IF pending_items = 0
       THEN dpc' = "log_completed" /\ dresult' = "No items to ingest."
       ELSE dpc' = "normalize" /\ UNCHANGED dresult
    /\ UNCHANGED <<config, db_chunks, pending_chunks, nextChunk, pending_items,
                   item, item_log>>
    /\ UNCHANGED <<db_documents, db_embeddings, db_events, agent_runs, nextId,
                   harnessVars, memVars, closerVars, search, chunked, onb,
                   race>>

\* normalized = self._normalize_with_llm(item): call_llm raises, or the
\* response (or the fallback) comes back.
CollectorNormalize ==
    /\ dpc = "normalize"
    /\ \/ /\ \E exc \in IF UnknownProvider(config.llm_provider)
                        THEN {ValueError} ELSE {ProviderError} :
                NextItem(LogEntry(0, exc, TRUE))
          /\ UNCHANGED <<config, db_chunks, pending_chunks, nextChunk>>
       \/ /\ ~UnknownProvider(config.llm_provider)
          /\ \E normalized \in Normalized :
                item' = [long |-> ContentLen(normalized.content)
                                      > DEFAULT_CHUNK_SIZE,
                         from_model |-> normalized.chunks # <<>>,
                         chunks |-> ChunksOf(normalized),
                         next |-> 1, doc_id |-> 0, faulted |-> FALSE]
          /\ dpc' = "store_document"
          /\ UNCHANGED <<config, db_chunks, pending_chunks, nextChunk,
                         pending_items, item_log, dresult>>
    /\ UNCHANGED <<storeVars, harnessVars, memVars, closerVars, search, chunked, onb,
                   race>>

\* doc_id = self.store_document(...): its commit makes every pending
\* write of the connection durable.
CollectorStoreDocument ==
    /\ dpc = "store_document"
    /\ nextId <= MaxIds
    /\ \E fault \in WriteFaults, vec \in CollectorVectors :
         LET a == "data_collector"
             r == store_document(conn[a], nextId, fault, vec)
             raised == IF r.raised = ProviderError THEN EmbedError ELSE r.raised
         IN  /\ CommitWrites(r)
             /\ db_chunks' = IF r.commit THEN db_chunks \cup pending_chunks
                             ELSE db_chunks
             /\ pending_chunks' = IF r.commit \/ r.raised = StoreError THEN {}
                                  ELSE pending_chunks
             /\ conn' = [conn EXCEPT ![a] = ConnAfter(r)]
             /\ nextId' = IF Inserted(r, nextId) THEN nextId + 1 ELSE nextId
             /\ IF raised = NoExc
                THEN /\ item' = [item EXCEPT !.doc_id = nextId]
                     /\ dpc' = "chunks"
                     /\ UNCHANGED <<pending_items, item_log, dresult>>
                ELSE NextItem(LogEntry(
                         IF Inserted(r, nextId) THEN nextId ELSE 0,
                         raised, fault # "none"))
    /\ UNCHANGED <<config, nextChunk>>
    /\ UNCHANGED <<agent_runs, harnessVars, memVars, closerVars, search, chunked, onb,
                   race>>

\* One iteration of `for idx, chunk in enumerate(chunks)`: an empty chunk
\* is skipped; otherwise INSERT INTO document_chunks with chunk_index idx,
\* embed_text, upsert the chunk's embedding.
CollectorStoreChunk ==
    /\ dpc = "chunks"
    /\ item.next <= Len(item.chunks)
    /\ item.chunks[item.next].content # "" => nextChunk <= MaxChunkRows
    /\ LET a == "data_collector"
           c == conn[a]
           idx == item.next - 1
           row == [id |-> nextChunk, document_id |-> item.doc_id,
                   chunk_index |-> idx]
       IN  IF item.chunks[item.next].content = ""
           THEN /\ item' = [item EXCEPT !.next = @ + 1]
                /\ UNCHANGED <<conn, pending_chunks, nextChunk, dpc,
                               pending_items, item_log, dresult>>
           ELSE \E fault \in WriteFaults, vec \in CollectorVectors :
                   IF c.txn = "aborted"
                   THEN /\ NextItem(LogEntry(item.doc_id, InFailedTxn,
                                             item.faulted))
                        /\ UNCHANGED <<conn, pending_chunks, nextChunk>>
                   ELSE IF fault = "insert_fails"
                   THEN /\ conn' = [conn EXCEPT ![a] = AbortTxn(c)]
                        /\ pending_chunks' = {}
                        /\ NextItem(LogEntry(item.doc_id, StoreError, TRUE))
                        /\ UNCHANGED nextChunk
                   ELSE IF fault = "embed_fails"
                   THEN /\ pending_chunks' = pending_chunks \cup {row}
                        /\ nextChunk' = nextChunk + 1
                        /\ NextItem(LogEntry(item.doc_id, EmbedError, TRUE))
                        /\ UNCHANGED conn
                   ELSE /\ pending_chunks' = pending_chunks \cup {row}
                        /\ nextChunk' = nextChunk + 1
                        /\ conn' = [conn EXCEPT ![a].embs =
                               UpsertEmbedding(@, "document_chunk", nextChunk,
                                               vec)]
                        /\ item' = [item EXCEPT !.next = @ + 1]
                        /\ UNCHANGED <<dpc, pending_items, item_log, dresult>>
    /\ UNCHANGED <<config, db_chunks>>
    /\ UNCHANGED <<db_documents, db_embeddings, db_events, agent_runs, nextId,
                   harnessVars, memVars, closerVars, search, chunked, onb,
                   race>>

\* conn.commit() after the chunk loop; the item is ingested.
CollectorCommitChunks ==
    /\ dpc = "chunks"
    /\ item.next > Len(item.chunks)
    /\ LET a == "data_collector"
           r == Helper(conn[a], NoExc, TRUE)
       IN  /\ CommitWrites(r)
           /\ db_chunks' = db_chunks \cup pending_chunks
           /\ pending_chunks' = {}
           /\ conn' = [conn EXCEPT ![a] = ConnAfter(r)]
    /\ NextItem(LogEntry(item.doc_id, NoExc, item.faulted))
    /\ UNCHANGED <<config, nextChunk>>
    /\ UNCHANGED <<agent_runs, nextId, harnessVars, memVars, closerVars, search, chunked, onb,
                   race>>

\* execute() after run() returned: log_run("completed") and its commit;
\* when that raises, the handler's log_run("failed") raises as well and is
\* swallowed, and the first exception is re-raised; finally disconnect_db.
CollectorLogRun ==
    /\ dpc = "log_completed"
    /\ LET a == "data_collector"
           r == log_run(conn[a])
       IN  /\ CommitWrites(r)
           /\ db_chunks' = IF r.commit THEN db_chunks \cup pending_chunks
                           ELSE db_chunks
           /\ pending_chunks' = {}
           /\ agent_runs' = IF r.raised = NoExc
                            THEN agent_runs \cup
                                     {AuditRow(a, "completed", dresult)}
                            ELSE agent_runs
           /\ conn' = [conn EXCEPT ![a] = ExecuteFinally(ConnAfter(r), r.raised)]
           /\ dpc' = IF r.raised = NoExc THEN "returned" ELSE "raised"
    /\ UNCHANGED <<config, nextChunk, pending_items, item, item_log, dresult>>
    /\ UNCHANGED <<nextId, harnessVars, memVars, closerVars, search, chunked, onb,
                   race>>

NextCollector ==
    /\ \/ LoadConfig
       \/ QueueItem
       \/ CollectorExecute
       \/ CollectorNormalize
       \/ CollectorStoreDocument
       \/ CollectorStoreChunk
       \/ CollectorCommitChunks
       \/ CollectorLogRun
    /\ UNCHANGED extraVars

SpecCollector == Init /\ [][NextCollector]_vars

\* ---------------------------------------------------------- Onboarding
\* SECTIONS: the sections of the questionnaire, by name.
SECTIONS == <<"linkedin_resume", "about_you", "goals", "system_preferences",
              "accountability", "data_sources">>

\* The vectors embed_text returns for the section summaries.
SummaryVectors == {0}

\* self._is_onboarded(): a document of type onboarding-complete is stored.
is_onboarded == onb.complete_doc_id \in db_documents

\* An exception leaves run(): execute()'s handler is next.
OnbRaise(exc) == onb' = [onb EXCEPT !.pc = "except", !.exc = exc]

\* INSERT INTO tasks ... RETURNING id: one new row.
upsert_task(tbl, id) == tbl @@ (id :> NewTask)

\* execute() up to the first section: connect_db, then run() with or
\* without --reset in sys.argv: the early return when already onboarded,
\* _clear_onboarding when resetting.
OnbExecute ==
    /\ onb.pc = "idle"
    /\ onb.calls < MaxSessions
    /\ \E reset \in BOOLEAN :
         LET a == "onboarding"
             c == connect_db(conn[a])
         IN  IF is_onboarded /\ ~reset
             THEN /\ onb' = [onb EXCEPT !.pc = "log_completed",
                                        !.calls = @ + 1, !.reset = reset,
                                        !.stored_doc_ids = {}, !.exc = NoExc,
                                        !.outcome = "none"]
                  /\ conn' = [conn EXCEPT ![a] = c]
                  /\ UNCHANGED <<db_documents, db_embeddings>>
             ELSE /\ onb' = [onb EXCEPT !.pc = "section", !.calls = @ + 1,
                                        !.reset = reset, !.section = 1,
                                        !.stored_doc_ids = {}, !.exc = NoExc,
                                        !.outcome = "none"]
                  /\ IF is_onboarded
                     THEN /\ db_embeddings' =
                               {e \in db_embeddings :
                                   ~(e.ref_type = "document"
                                     /\ e.ref_id \in db_documents)}
                          /\ db_documents' = {}
                          /\ conn' = [conn EXCEPT ![a] = Committed(c)]
                     ELSE /\ conn' = [conn EXCEPT ![a] = c]
                          /\ UNCHANGED <<db_documents, db_embeddings>>
    /\ UNCHANGED <<db_events, agent_runs, nextId, tasks>>

\* _run_section: the exchanges of one section.  A _call_llm_chat call can
\* raise; EOFError or KeyboardInterrupt at a prompt ends in sys.exit(1),
\* a SystemExit that `except Exception` does not catch.
OnbRunSection ==
    /\ onb.pc = "section"
    /\ \/ onb' = [onb EXCEPT !.pc = "store"]
       \/ onb' = [onb EXCEPT !.pc = "finally", !.exc = Interrupt]
       \/ OnbRaise(ProviderError)
    /\ UNCHANGED <<db_documents, db_embeddings, db_events, agent_runs, nextId,
                   conn, tasks>>

\* doc_id = self.store_document(...) of the section summary.
OnbStoreSection ==
    /\ onb.pc = "store"
    /\ \E fault \in StoreFaults, vec \in SummaryVectors :
         LET a == "onboarding"
             r == store_document(conn[a], nextId, fault, vec)
         IN  /\ CommitWrites(r)
             /\ conn' = [conn EXCEPT ![a] = ConnAfter(r)]
             /\ nextId' = IF Inserted(r, nextId) THEN nextId + 1 ELSE nextId
             /\ IF r.raised # NoExc THEN OnbRaise(r.raised)
                ELSE onb' = [onb EXCEPT
                        !.stored_doc_ids = @ \cup {nextId},
                        !.section = @ + 1,
                        !.pc = IF onb.section < Len(SECTIONS) THEN "section"
                               ELSE "extract"]
    /\ UNCHANGED <<agent_runs, tasks>>

\* tasks = self._extract_tasks(all_goals_messages): the call can raise; a
\* response that is not a JSON list yields no task.
OnbExtractTasks ==
    /\ onb.pc = "extract"
    /\ \/ \E n \in 0..MaxExtracted : onb' = [onb EXCEPT !.pc = "tasks", !.todo = n]
       \/ OnbRaise(ProviderError)
    /\ UNCHANGED <<db_documents, db_embeddings, db_events, agent_runs, nextId,
                   conn, tasks>>

\* task_id = self.upsert_task(...): INSERT INTO tasks, commit.
OnbUpsertTask ==
    /\ onb.pc = "tasks"
    /\ onb.todo > 0
    /\ \E fault \in {"none", "insert_fails"} :
         LET a == "onboarding"
             c == conn[a]
         IN  IF c.txn = "aborted"
             THEN /\ OnbRaise(InFailedTxn)
                  /\ UNCHANGED <<db_documents, db_embeddings, db_events, conn,
                                 tasks>>
             ELSE IF fault = "insert_fails"
             THEN /\ OnbRaise(StoreError)
                  /\ conn' = [conn EXCEPT ![a] = AbortTxn(c)]
                  /\ UNCHANGED <<db_documents, db_embeddings, db_events, tasks>>
             ELSE /\ tasks' = upsert_task(tasks, Cardinality(DOMAIN tasks) + 1)
                  /\ CommitWrites(Helper(c, NoExc, TRUE))
                  /\ conn' = [conn EXCEPT ![a] = Committed(c)]
                  /\ onb' = [onb EXCEPT !.todo = @ - 1]
    /\ UNCHANGED <<agent_runs, nextId>>

\* complete_doc_id = self.store_document(doc_type="onboarding-complete", ...)
OnbStoreMarker ==
    /\ onb.pc = "tasks"
    /\ onb.todo = 0
    /\ \E fault \in StoreFaults, vec \in SummaryVectors :
         LET a == "onboarding"
             r == store_document(conn[a], nextId, fault, vec)
         IN  /\ CommitWrites(r)
             /\ conn' = [conn EXCEPT ![a] = ConnAfter(r)]
             /\ nextId' = IF Inserted(r, nextId) THEN nextId + 1 ELSE nextId
             /\ IF r.raised # NoExc THEN OnbRaise(r.raised)
                ELSE onb' = [onb EXCEPT !.complete_doc_id = nextId,
                                        !.pc = "event"]
    /\ UNCHANGED <<agent_runs, tasks>>

\* self.store_event(event_type="onboarding-complete", ...); run() returns.
OnbStoreEvent ==
    /\ onb.pc = "event"
    /\ \E fault \in {"none", "insert_fails"} :
         LET a == "onboarding"
             r == store_event(conn[a], EventRow(nextId, "onboarding-complete"),
                              fault)
         IN  /\ CommitWrites(r)
             /\ conn' = [conn EXCEPT ![a] = ConnAfter(r)]
             /\ nextId' = IF r.commit THEN nextId + 1 ELSE nextId
             /\ IF r.raised # NoExc THEN OnbRaise(r.raised)
                ELSE onb' = [onb EXCEPT !.pc = "log_completed"]
    /\ UNCHANGED <<agent_runs, tasks>>

\* execute() after run(): log_run("completed"), or the handler's
\* log_run("failed") and the bare raise.
OnbLogRun ==
    /\ onb.pc \in {"log_completed", "except"}
    /\ LET a == "onboarding"
           r == log_run(conn[a])
           status == IF onb.pc = "except" THEN "failed" ELSE "completed"
       IN  /\ CommitWrites(r)
           /\ conn' = [conn EXCEPT ![a] = ConnAfter(r)]
           /\ agent_runs' = IF r.raised = NoExc
                            THEN agent_runs \cup
                                     {[agent_name |-> a, call |-> onb.calls,
                                       status |-> status, summary |-> onb.exc]}
                            ELSE agent_runs
           /\ onb' = IF r.raised # NoExc /\ onb.pc = "log_completed"
                     THEN [onb EXCEPT !.pc = "except", !.exc = r.raised]
                     ELSE [onb EXCEPT !.pc = "finally"]
    /\ UNCHANGED <<db_events, nextId, tasks>>

\* finally: self.disconnect_db(); control leaves execute().
OnbFinally ==
    /\ onb.pc = "finally"
    /\ conn' = [conn EXCEPT !["onboarding"] = ExecuteFinally(@, onb.exc)]
    /\ onb' = [onb EXCEPT !.pc = "idle",
                          !.outcome = IF onb.exc = NoExc THEN "returned"
                                      ELSE onb.exc]
    /\ UNCHANGED <<db_documents, db_embeddings, db_events, agent_runs, nextId,
                   tasks>>

NextOnboarding ==
    /\ \/ OnbExecute
       \/ OnbRunSection
       \/ OnbStoreSection
       \/ OnbExtractTasks
       \/ OnbUpsertTask
       \/ OnbStoreMarker
       \/ OnbStoreEvent
       \/ OnbLogRun
       \/ OnbFinally
    /\ UNCHANGED <<harnessVars, memVars, cpc, left, last_step, claim_turns,
                   llm_called, cconn, cresult, run_failed, search,
                   collectorVars, race, extraVars>>

SpecOnboarding == Init /\ [][NextOnboarding]_vars

\* ------------------------------------------- concurrent task updates
\* Two processes (two Closer runs, or a Closer run and another editor of
\* tasks) each call _update_task_status once; the UPDATE and the commit are
\* separate statements, and between them the process holds the row lock
\* PostgreSQL gives the UPDATE.

\* A process waits at its UPDATE while another transaction holds the row.
RowLockFree(holder, c) == holder \in {"", c}

ReleaseLocks_never(lock, c) == lock

\* conn.commit() / conn.rollback() end the transaction and release its
\* row locks.
ReleaseLocks(lock, c) == [t \in DOMAIN lock |-> IF lock[t] = c THEN "" ELSE lock[t]]

\* self._update_task_status(task_id, new_status, notes) is called.
RaceCall(c) ==
    /\ race.pc[c] = "idle"
    /\ \E t \in TaskIds, s \in PartialStatuses, fails \in BOOLEAN :
          race' = [race EXCEPT !.pc[c] = "update",
                               !.want[c] = [task_id |-> t, new_status |-> s,
                                            fails |-> fails]]
    /\ UNCHANGED tasks

\* cur.execute(UPDATE tasks ... WHERE id = task_id): waits for the row,
\* then either raises (the except branch rolls back and returns False) or
\* leaves the new row version pending.
RaceUpdate(c) ==
    /\ race.pc[c] = "update"
    /\ RowLockFree(race.lock[race.want[c].task_id], c)
    /\ IF race.want[c].fails
       THEN race' = [race EXCEPT !.pc[c] = "done",
                                 !.lock = ReleaseLocks(@, c)]
       ELSE race' = [race EXCEPT !.pc[c] = "commit",
                                 !.lock[race.want[c].task_id] = c]
    /\ UNCHANGED tasks

\* conn.commit(); return True
RaceCommit(c) ==
    /\ race.pc[c] = "commit"
    /\ tasks' = update_task_status(tasks, race.want[c].task_id,
                                   race.want[c].new_status, <<>>, FALSE).tasks
    /\ race' = [race EXCEPT !.pc[c] = "done", !.ok[c] = TRUE,
                            !.lock = ReleaseLocks(@, c),
                            !.last_commit[race.want[c].task_id] = c]

NextRace ==
    /\ \E c \in Closers :
          \/ RaceCall(c)
          \/ RaceUpdate(c)
          \/ RaceCommit(c)
    /\ UNCHANGED <<storeVars, harnessVars, memVars, cpc, left, last_step,
                   claim_turns, llm_called, cconn, cresult, run_failed,
                   search, collectorVars, onb, extraVars>>

\* Each process is scheduled as long as it can take a step.
SpecRace == Init /\ [][NextRace]_vars /\ WF_vars(NextRace)

\* ------------------------------------------- connect_db, disconnect_db
\* The connection object and the server session behind it, for two agent
\* instances that call connect_db and disconnect_db in any order.

\* The sessions open at the server.
OpenIds == {s.id : s \in handles.open}

NeedsConnect_always(db_conn) == TRUE

\* if self.db_conn is None or self.db_conn.closed
NeedsConnect(db_conn) == db_conn = 0 \/ db_conn \notin OpenIds

\* if self.db_conn and not self.db_conn.closed
HoldsOpen(db_conn) == db_conn # 0 /\ db_conn \in OpenIds

\* What self.db_conn is when a call starts: None, an open connection or a
\* closed one.
Held(db_conn) ==
    IF db_conn = 0 THEN "none"
    ELSE IF db_conn \in OpenIds THEN "open" ELSE "closed"

\* connect_db: psycopg2.connect when no open connection is held, then
\* return self.db_conn.
ConnectDb(a) ==
    /\ \E fault \in ConnectFaults :
         IF NeedsConnect(handles.db_conn[a])
         THEN IF fault = "connect_fails"
              THEN handles' = [handles EXCEPT
                      !.last = [by |-> a, op |-> "connect_db",
                                held |-> Held(handles.db_conn[a]),
                                returned |-> 0, raised |-> OperationalError]]
              ELSE /\ handles.next <= MaxHandles
                   /\ handles' = [handles EXCEPT
                          !.db_conn[a] = handles.next,
                          !.open = @ \cup {[id |-> handles.next, by |-> a]},
                          !.next = @ + 1,
                          !.last = [by |-> a, op |-> "connect_db",
                                    held |-> Held(handles.db_conn[a]),
                                    returned |-> handles.next,
                                    raised |-> NoExc]]
         ELSE handles' = [handles EXCEPT
                 !.last = [by |-> a, op |-> "connect_db", held |-> "open",
                           returned |-> handles.db_conn[a], raised |-> NoExc]]

\* disconnect_db: close the connection if one is held and open.
DisconnectDb(a) ==
    handles' = [handles EXCEPT
        !.open = IF HoldsOpen(handles.db_conn[a])
                 THEN {s \in @ : s.id # handles.db_conn[a]}
                 ELSE @,
        !.last = [by |-> a, op |-> "disconnect_db",
                  held |-> Held(handles.db_conn[a]), returned |-> 0,
                  raised |-> NoExc]]

NextConnection ==
    /\ \E a \in Agents :
          \/ ConnectDb(a)
          \/ DisconnectDb(a)
    /\ UNCHANGED <<storeVars, harnessVars, memVars, closerVars, search,
                   collectorVars, onb, race, counts, ingest, embed_requests,
                   clearing>>

SpecConnection == Init /\ [][NextConnection]_vars

\* ----------------------------------- the queue of the DataCollector
\* One DataCollectorAgent instance: queue_item and run() called in any
\* order.  Items are told apart by the order of their queue_item call.

\* How an iteration of the loop of run() can end: the item is stored;
\* _normalize_with_llm or _store_normalized raises an exception, which the
\* loop catches; an interruption, which it does not catch.
ItemOutcomes == {NoExc, ProviderError, StoreError, Interrupt}

ClearQueue_kept(pending) == pending

\* self._pending_items.clear()
ClearQueue(pending) == <<>>

\* queue_item: self._pending_items.append({...})
IngestQueueItem ==
    /\ ingest.pc = "idle"
    /\ ingest.queued < MaxQueued
    /\ Len(ingest.pending_items) < MaxItems
    /\ ingest' = [ingest EXCEPT
           !.pending_items = Append(@, ingest.queued + 1),
           !.queued = @ + 1,
           !.staged = TRUE]

\* run() is called: with nothing queued it returns at once, otherwise the
\* loop starts with ingested = 0 and failed = 0.
IngestRun ==
    /\ ingest.pc = "idle"
    /\ ingest.runs < MaxCalls
    /\ ingest' = [ingest EXCEPT
           !.runs = @ + 1,
           !.pc = IF ingest.pending_items = <<>> THEN "idle" ELSE "loop",
           !.at = IF ingest.pending_items = <<>> THEN @ ELSE 1,
           !.processed = IF ingest.pending_items = <<>> THEN @ ELSE <<>>,
           !.llm_calls = IF ingest.pending_items = <<>> THEN @ ELSE 0,
           !.writes = IF ingest.pending_items = <<>> THEN @ ELSE 0,
           !.staged = IF ingest.pending_items = <<>> THEN FALSE ELSE @,
           !.result = IF ingest.pending_items = <<>>
                      THEN RunResult("No items to ingest.", NoResult.summary)
                      ELSE NoResult]

\* One iteration of `for item in self._pending_items`: the inference call
\* of _normalize_with_llm, then _store_normalized; `except Exception`
\* counts a failure and the loop goes on.
IngestItem ==
    /\ ingest.pc = "loop"
    /\ ingest.at <= Len(ingest.pending_items)
    /\ \E failed \in ItemOutcomes, stored \in BOOLEAN :
         /\ failed = NoExc => stored
         /\ failed = ProviderError => ~stored
         /\ ingest' = [ingest EXCEPT
                !.llm_calls = @ + 1,
                !.writes = IF stored THEN @ + 1 ELSE @,
                !.processed = Append(@, [item |-> ingest.pending_items[ingest.at],
                                         failed |-> failed]),
                !.at = @ + 1,
                !.pc = IF failed \in Exceptions \cup {NoExc} THEN "loop"
                       ELSE "idle",
                !.result = IF failed \in Exceptions \cup {NoExc} THEN @
                           ELSE RunResult(failed, NoResult.summary)]

\* After the loop: clear the queue, build the summary, return it.
IngestReturn ==
    /\ ingest.pc = "loop"
    /\ ingest.at > Len(ingest.pending_items)
    /\ ingest' = [ingest EXCEPT
           !.pending_items = ClearQueue(@),
           !.staged = FALSE,
           !.result = RunResult("Ingested items.", Summary(ingest.processed)),
           !.pc = "idle"]

NextIngest ==
    /\ \/ IngestQueueItem
       \/ IngestRun
       \/ IngestItem
       \/ IngestReturn
    /\ UNCHANGED <<storeVars, harnessVars, memVars, closerVars, search,
                   collectorVars, onb, race, counts, handles,
                   embed_requests, clearing>>

SpecIngest == Init /\ [][NextIngest]_vars

\* ------------------------------------------- what embed_text is sent
\* The callers of embed_text and the length of the text each passes.

\* Lengths of the texts the callers hold, in characters.
TextLengths == {0, 1, 7999, 8000, 8001, 10000}

\* text[:n]
Prefix(len, n) == IF len <= n THEN len ELSE n

\* embed_text posts its argument as the request's "input", as it is.
embed_text(caller, len) == [caller |-> caller, input |-> len]

\* store_document: vec = self.embed_text(content[:8000])
EmbedDocument ==
    /\ Len(embed_requests) < MaxRequests
    /\ \E len \in TextLengths :
          embed_requests' = Append(embed_requests,
                                   embed_text("store_document", Prefix(len, 8000)))

\* _store_normalized: vec = self.embed_text(chunk_content[:8000])
EmbedChunk ==
    /\ Len(embed_requests) < MaxRequests
    /\ \E len \in TextLengths \ {0} :
          embed_requests' = Append(embed_requests,
                                   embed_text("_store_normalized", Prefix(len, 8000)))

\* search_memory: query_vec = self.embed_text(query)
EmbedQuery ==
    /\ Len(embed_requests) < MaxRequests
    /\ \E len \in TextLengths :
          embed_requests' = Append(embed_requests,
                                   embed_text("search_memory", len))

NextEmbed ==
    /\ \/ EmbedDocument
       \/ EmbedChunk
       \/ EmbedQuery
    /\ UNCHANGED <<storeVars, harnessVars, memVars, closerVars, search,
                   collectorVars, onb, race, counts, handles, ingest,
                   clearing>>

SpecEmbed == Init /\ [][NextEmbed]_vars

\* ------------------------------ _clear_onboarding beside the writers
\* One process runs _clear_onboarding statement by statement (isolation
\* level READ COMMITTED: each statement sees what is committed when it
\* starts) while other processes store documents with store_document.

\* doc_type LIKE 'onboarding%': the committed documents the pattern matches.
OnboardingDocuments == db_documents \ clearing.notes

\* The DataCollector stores a document of another type.
StoreNote(a) ==
    /\ a = "data_collector"
    /\ nextId <= MaxIds
    /\ \E vec \in Vectors :
         LET r == store_document(connect_db(conn[a]), nextId, "none", vec)
         IN  /\ CommitWrites(r)
             /\ conn' = [conn EXCEPT ![a] = ConnAfter(r)]
             /\ nextId' = IF Inserted(r, nextId) THEN nextId + 1 ELSE nextId
             /\ clearing' = [clearing EXCEPT !.notes = @ \cup {nextId}]
    /\ UNCHANGED <<agent_runs, harnessVars, memVars, closerVars, search>>

\* DELETE FROM embeddings WHERE ref_type = 'document' AND ref_id IN
\* (SELECT id FROM documents WHERE doc_type LIKE 'onboarding%')
ClearDeleteEmbeddings ==
    /\ clearing.pc \in {"idle", "committed"}
    /\ clearing' = [clearing EXCEPT
           !.pc = "embeddings_deleted",
           !.del_embs = {e \in db_embeddings :
                            e.ref_type = "document"
                            /\ e.ref_id \in OnboardingDocuments},
           !.del_docs = {}]
    /\ UNCHANGED <<storeVars, harnessVars, memVars, closerVars, search>>

\* DELETE FROM documents WHERE doc_type LIKE 'onboarding%'
ClearDeleteDocuments ==
    /\ clearing.pc = "embeddings_deleted"
    /\ clearing' = [clearing EXCEPT !.pc = "documents_deleted",
                              !.del_docs = OnboardingDocuments]
    /\ UNCHANGED <<storeVars, harnessVars, memVars, closerVars, search>>

\* conn.commit()
ClearCommit ==
    /\ clearing.pc = "documents_deleted"
    /\ db_embeddings' = db_embeddings \ clearing.del_embs
    /\ db_documents' = db_documents \ clearing.del_docs
    /\ clearing' = [clearing EXCEPT !.pc = "committed"]
    /\ UNCHANGED <<db_events, agent_runs, nextId, conn, harnessVars, memVars,
                   closerVars, search>>

NextReset ==
    /\ \/ StoreOnboardingDocument("onboarding") /\ UNCHANGED clearing
       \/ StoreNote("data_collector")
       \/ ClearDeleteEmbeddings
       \/ ClearDeleteDocuments
       \/ ClearCommit
    /\ UNCHANGED <<collectorVars, onb, race, counts, handles, ingest,
                   embed_requests>>

SpecReset == Init /\ [][NextReset]_vars

\* ================================================================ claims
\* execute() has been called on a and control has left it.
Finished(a) == pc[a] = "idle" /\ calls[a] > 0

\* The agent_runs rows written by the n-th execute() call of agent a.
RowsOfCall(a, n) == {r \in agent_runs : r.agent_name = a /\ r.call = n}

RunRaised(a) == runOutcome[a] \in Exceptions

\* C1: once an execute() call whose run() raised has finished, exactly one
\* agent_runs row with status failed exists for that call and the
\* connection is closed, whatever state run() left the transaction in.
C1_FailedRunAudited ==
    \A a \in Agents :
        Finished(a) /\ RunRaised(a) =>
            /\ Cardinality({r \in RowsOfCall(a, calls[a]) : r.status = "failed"}) = 1
            /\ conn[a].status = "closed"

\* C2: every committed document has a committed embedding keyed
\* (document, id), after any sequence of store_document calls and later
\* commits on the same connection.
C2_CommittedDocumentHasEmbedding ==
    \A d \in db_documents :
        \E e \in db_embeddings : EmbKey(e) = <<"document", d>>

\* C5: when run() returned normally, the finished execute() call has
\* written exactly one row, with status completed and the text of the
\* return value as summary, and has returned without raising.
C5_CompletedRunAudited ==
    \A a \in Agents :
        Finished(a) /\ runOutcome[a] = "returned" =>
            /\ RowsOfCall(a, calls[a]) =
                   {AuditRow(a, "completed", SummaryOf(run_result[a]))}
            /\ outcome[a] = "returned"

\* C6: whenever control is outside execute(), the agent's connection is
\* not open: it is closed after a normal return, after run() raised, after
\* the audit write raised and after an interruption of run().
C6_ConnectionClosedOnExit ==
    \A a \in Agents : pc[a] = "idle" => conn[a].status # "open"

\* One call ended by an interruption and one in which run() raised and the
\* audit write raised too have both finished.
C6_Witness ==
    /\ Finished("data_collector") /\ runOutcome["data_collector"] = Interrupt
    /\ conn["data_collector"].status = "closed"
    /\ Finished("onboarding") /\ runOutcome["onboarding"] = StoreError
    /\ RowsOfCall("onboarding", calls["onboarding"]) = {}
    /\ conn["onboarding"].status = "closed"

\* C7: when run() raised E, execute() leaves by raising that same E, with
\* the connection released, also when the failed audit write raised.
C7_OriginalErrorReraised ==
    \A a \in Agents :
        Finished(a) /\ RunRaised(a) =>
            /\ outcome[a] = runOutcome[a]
            /\ conn[a].status = "closed"

\* run() raised a store error, the audit write raised in the aborted
\* transaction, and execute() has left.
C7_Witness ==
    \E a \in Agents :
        /\ Finished(a) /\ runOutcome[a] = StoreError
        /\ RowsOfCall(a, calls[a]) = {}
        /\ outcome[a] = StoreError

\* C8: every finished execute() call has exactly one agent_runs row,
\* whatever its outcome, so the rows of finished calls number the calls.
C8_OneRowPerCall ==
    \A a \in Agents : \A n \in 1..calls[a] :
        (n < calls[a] \/ pc[a] = "idle") => Cardinality(RowsOfCall(a, n)) = 1

AtMostOnePerKey(rows) ==
    \A r1, r2 \in rows : EmbKey(r1) = EmbKey(r2) => r1 = r2

\* C9: the embeddings table (committed, and as each connection sees it)
\* holds at most one row per (ref_type, ref_id); right after a successful
\* store_document exactly one row keyed (document, id) exists for the
\* returned id; and an embedding written for a key that has a row
\* replaces the row's vector and leaves the other rows alone.
C9_OneEmbeddingPerKey ==
    /\ AtMostOnePerKey(db_embeddings)
    /\ \A a \in Agents : AtMostOnePerKey(VisibleEmbeddings(conn[a]))
    /\ last_store.id # 0 =>
           Cardinality({e \in db_embeddings :
                           EmbKey(e) = <<"document", last_store.id>>}) = 1
    /\ \A e \in db_embeddings : \A v \in Vectors :
           LET t == UpsertEmbedding(db_embeddings, e.ref_type, e.ref_id, v)
           IN  /\ {x \in t : EmbKey(x) = EmbKey(e)} =
                      {[ref_type |-> e.ref_type, ref_id |-> e.ref_id,
                        embedding |-> v]}
               /\ {x \in t : EmbKey(x) # EmbKey(e)} =
                      {x \in db_embeddings : EmbKey(x) # EmbKey(e)}

\* A store_document has just returned an id while another document is
\* already embedded.
C9_Witness ==
    /\ last_store.id # 0
    /\ \E e \in db_embeddings : e.ref_id # last_store.id
    /\ \E e \in db_embeddings : e.ref_id = last_store.id

\* C10: a store_document whose embedding call failed raises and returns
\* no id, and no search_memory result contains a document whose embedding
\* call failed.
C10_FailedDocumentNeverFound ==
    /\ last_store.fault = "embed_fails" =>
           last_store.raised # NoExc /\ last_store.id = 0
    /\ \A i \in 1..Len(last_search.hits) :
           ~(last_search.hits[i].ref_type = "document"
             /\ last_search.hits[i].ref_id \in failedDocs)

\* A document whose embedding call failed is committed (a later commit on
\* the connection made it durable) and a search has just returned hits.
C10_Witness ==
    /\ failedDocs \cap db_documents # {}
    /\ Len(last_search.hits) >= 1

\* C3: no step of a Closer run changes a task whose status is done to
\* another status.
C3_DoneNeverReopened ==
    [][\A t \in TaskIds :
          tasks[t].status = "done" => tasks'[t].status = "done"]_vars

\* C4: a verified completion naming a pending task: with confidence at
\* least 0.7 the update is issued and, when the store accepts it, the task
\* is done, stamped and carries a non-empty verification note (a rejected
\* update leaves the table as it was); with confidence below 0.7 nothing
\* of the tasks table changes.
C4_ConfidenceGate ==
    [][\A t \in TaskIds :
          (/\ last_step'.kind = "completion"
           /\ last_step'.task_id = t
           /\ tasks[t].status = "pending")
          => IF last_step'.confidence >= 70
             THEN /\ last_step'.called
                  /\ IF last_step'.ok
                     THEN /\ tasks'[t].status = "done"
                          /\ tasks'[t].completed_at
                          /\ ~NoteIsEmpty(tasks'[t].notes)
                     ELSE tasks' = tasks
             ELSE tasks' = tasks]_vars

\* A completion with confidence exactly 0.7 has just been applied: the
\* task is done with the Closer's verification note.
C4_Witness ==
    /\ last_step.kind = "completion"
    /\ last_step.confidence = 70
    /\ last_step.ok
    /\ last_step.task_id \in TaskIds
    /\ tasks[last_step.task_id].status = "done"
    /\ tasks[last_step.task_id].notes = VerifiedNote("")

\* The entry a Closer loop has just processed was a task update that
\* matched a row and was committed.
WroteTask(step) ==
    /\ step.kind \in {"completion", "partial"}
    /\ step.called /\ step.ok
    /\ step.task_id \in TaskIds

\* C11: the second of two Closer runs in succession, with no conversation
\* turn added between them, writes no task, whatever the model answers.
C11_SecondRunUpdatesNothing ==
    [][last_step'.by = "closer_2" => ~WroteTask(last_step')]_vars

\* pending < in_progress < done
StatusRank(status) ==
    CASE status = "in_progress" -> 1
      [] status = "done" -> 2
      [] OTHER -> 0

\* C12: every status the Closer writes is in_progress or done, no write
\* moves a task backward, and a cancelled task is never written.
C12_ForwardOnly ==
    [][\A t \in TaskIds :
          (WroteTask(last_step') /\ last_step'.task_id = t) =>
              /\ last_step'.new_status \in {"in_progress", "done"}
              /\ tasks'[t].status = last_step'.new_status
              /\ StatusRank(tasks'[t].status) >= StatusRank(tasks[t].status)
              /\ tasks[t].status # "cancelled"]_vars

\* C16: while no user turn matches a completion marker, a Closer run
\* returns the no-op summary, the inference provider is not called, and no
\* task and no event is written.
C16_NoClaimsNoOp ==
    ~claim_turns =>
        /\ \A c \in Closers :
              /\ ~llm_called[c]
              /\ cpc[c] \in {"done", "exited"} => cresult[c] = NoClaimsSummary
        /\ tasks = [t \in TaskIds |-> NewTask]
        /\ db_events = {}

\* Both runs have returned the no-op summary.
C16_Witness ==
    /\ ~claim_turns
    /\ \A c \in Closers : cpc[c] = "exited" /\ cresult[c] = NoClaimsSummary

\* C17: a response that does not parse as the structured verdict gives the
\* empty verdict: no entry is processed, no task and no event is written
\* and run() does not raise.
C17_UnparsedIsEmptyVerdict ==
    [][\A c \in Closers :
          (/\ cpc[c] = "call_llm" /\ cpc'[c] # "call_llm"
           /\ left'[c].parsed_as \in {"text", "array"})
          => /\ cresult'[c] \notin Exceptions
             /\ left'[c].completions = 0 /\ left'[c].partials = 0
             /\ left'[c].events = 0 /\ left'[c].flags = 0
             /\ tasks' = tasks
             /\ db_events' = db_events]_vars

\* C18: each task update of a run stands on its own: a failed update
\* changes no task (the committed updates stay as they are) and leaves
\* the loop running, every entry is attempted once, and an update the
\* store accepts is applied whatever failed before it in the run.
C18_UpdatesIndependent ==
    [][\A c \in Closers :
          (/\ last_step'.by = c
           /\ last_step'.kind \in {"completion", "partial"}
           /\ last_step'.called)
          => /\ ~last_step'.ok => tasks' = tasks
             /\ ~last_step'.fails => last_step'.ok
             /\ cpc'[c] = cpc[c]
             /\ left'[c].completions + left'[c].partials =
                    left[c].completions + left[c].partials - 1]_vars

\* A partial update has just been committed in a run in which an earlier
\* task update failed.
C18_Witness ==
    /\ run_failed \in {"completion", "partial"}
    /\ last_step.kind = "partial"
    /\ WroteTask(last_step)
    /\ tasks[last_step.task_id].status = last_step.new_status

\* C19: after a verification event of the run failed to be stored, every
\* later verification event and follow-up event whose insert the store
\* accepts is stored, and run() does not raise.
C19_EventFailureSkipsOne ==
    [][\A c \in Closers :
          (/\ last_step'.by = c
           /\ last_step'.kind \in {"event", "flag"}
           /\ run_failed = "event"
           /\ ~last_step'.fails)
          => /\ last_step'.ok
             /\ cresult'[c] \notin Exceptions]_vars

\* C20: a follow-up flag whose insert the store accepts appends exactly
\* one event of type follow_up; no task changes and no other row of any
\* table is updated or deleted.
C20_FlagAppendsOneEvent ==
    [][(last_step'.kind = "flag" /\ ~last_step'.fails) =>
          /\ db_events' = db_events \cup {EventRow(nextId, "follow_up")}
          /\ EventRow(nextId, "follow_up") \notin db_events
          /\ tasks' = tasks
          /\ UNCHANGED <<db_documents, db_embeddings, agent_runs>>]_vars

\* C13: a search_memory call returns at most limit results, in
\* non-increasing order of score.
C13_AtMostLimitByScore ==
    search.phase = "returned" =>
        /\ Len(search.hits) <= search.limit
        /\ \A i, j \in 1..Len(search.hits) :
               i < j => search.hits[i].score >= search.hits[j].score

\* A call with limit 2 has returned two results of different scores while
\* more than two rows are embedded.
C13_Witness ==
    /\ search.phase = "returned"
    /\ search.limit = 2
    /\ Len(search.hits) = 2
    /\ search.hits[1].score > search.hits[2].score
    /\ Cardinality(db_embeddings) > 2

\* The content row an embedding row points to exists (the tables of
\* chunks and conversation turns are empty).
Alive(e) ==
    \/ e.ref_type = "document" /\ e.ref_id \in db_documents
    \/ e.ref_type = "event" /\ e.ref_id \in db_events
    \/ e.ref_type = "task" /\ e.ref_id \in TaskIds

\* cand are the limit nearest of rows to q, nearest first.
IsNearest(cand, rows, q, limit) ==
    /\ Len(cand) = Min(limit, Cardinality(rows))
    /\ \A i \in 1..Len(cand) : cand[i] \in rows
    /\ \A i, j \in 1..Len(cand) : i < j =>
           /\ cand[i] # cand[j]
           /\ Distance(q, cand[i].embedding) <= Distance(q, cand[j].embedding)
    /\ \A r \in rows : (\A i \in 1..Len(cand) : cand[i] # r) =>
           \A i \in 1..Len(cand) :
               Distance(q, cand[i].embedding) <= Distance(q, r.embedding)

\* C14: the candidates of a search_memory call are the limit nearest
\* embedding rows that pass the ref_type filter, nearest first; each is
\* hydrated in that order and appended with its score when its content row
\* exists at that moment, and left out without an exception when the row
\* is missing, was deleted after the query, or its ref_type is unknown;
\* the call returns what it appended.
C14_HydratedNearest ==
    [][/\ (search'.phase = "hydrating" /\ search.phase # "hydrating") =>
              /\ IsNearest(search'.candidates,
                           {e \in db_embeddings :
                               search'.ref_type \in {"", e.ref_type}},
                           search'.q, search'.limit)
              /\ search'.hits = <<>>
       /\ (search.phase = "hydrating" /\ search'.next = search.next + 1) =>
              LET h == search.candidates[search.next]
              IN  /\ search'.phase = "hydrating"
                  /\ search'.hits =
                         IF Alive(h)
                         THEN Append(search.hits,
                                     [ref_type |-> h.ref_type,
                                      ref_id |-> h.ref_id,
                                      score |-> 1 - Distance(search.q, h.embedding)])
                         ELSE search.hits
       /\ (search.phase = "hydrating" /\ search'.phase = "returned") =>
              /\ search.next = Len(search.candidates) + 1
              /\ search'.hits = search.hits]_vars

\* A call with limit 1 has returned nothing, its one candidate being a
\* document deleted after the query, while two live rows are embedded.
C14_Witness ==
    /\ search.phase = "returned"
    /\ search.limit = 1
    /\ Len(search.candidates) = 1
    /\ search.candidates[1].ref_type = "document"
    /\ search.candidates[1].ref_id \notin db_documents
    /\ search.hits = <<>>
    /\ Cardinality({e \in db_embeddings : Alive(e)}) > 1

\* C15: every result of a call with a ref_type filter has that ref_type.
C15_FilterRespected ==
    search.ref_type # "" =>
        \A i \in 1..Len(search.hits) :
            search.hits[i].ref_type = search.ref_type

\* A call filtered on task has returned a task while an embedding of
\* another ref_type is nearer to the query.
C15_Witness ==
    /\ search.phase = "returned"
    /\ search.ref_type = "task"
    /\ Len(search.hits) >= 1
    /\ \E e \in db_embeddings :
           /\ e.ref_type # "task"
           /\ Distance(search.q, e.embedding) < 1 - search.hits[1].score

\* The document_chunks rows committed for a document.
ChunkRows(doc_id) == {r \in db_chunks : r.document_id = doc_id}

\* C21: for every document ingested with chunks, supplied by the model or
\* produced by _chunk_content, the chunk_index values of its stored rows
\* are exactly 0..n-1, n the number of rows stored: no gap, no duplicate.
C21_ChunkIndexesContiguous ==
    \A i \in DOMAIN item_log :
        item_log[i].failed = NoExc =>
            LET rows == ChunkRows(item_log[i].doc_id)
            IN  {r.chunk_index : r \in rows} = 0..(Cardinality(rows) - 1)

\* C22: for a content longer than the chunk target _chunk_content returns
\* only non-empty chunks, and for a content of 10,000 characters with the
\* target 3000 at least 3 chunks, whatever the paragraphs are.
C22_NonEmptyAndAtLeastThree ==
    ContentLen(chunked.content) > chunked.chunk_size =>
        /\ \A i \in DOMAIN chunked.chunks : chunked.chunks[i].content # ""
        /\ ContentLen(chunked.content) = 10000 => Len(chunked.chunks) >= 3

\* C23: document_chunks rows exist for a document only if its content is
\* longer than the chunk target, whatever the normalization returned.
C23_ChunksOnlyForLongContent ==
    \A i \in DOMAIN item_log :
        item_log[i].failed = NoExc /\ ChunkRows(item_log[i].doc_id) # {}
            => item_log[i].long

\* A step in which upsert_task returned / store_event returned, in the
\* onboarding run.
TaskInserted ==
    onb.pc = "tasks" /\ onb.todo > 0 /\ onb'.pc = "tasks"
        /\ onb'.todo = onb.todo - 1

EventInserted == onb.pc = "event" /\ onb'.pc = "log_completed"

\* C24: store_event and upsert_task each insert exactly one row (events,
\* tasks), commit it and leave the embeddings table and every other table
\* unchanged; no existing events row is ever modified.
C24_PlainInserts ==
    [][/\ TaskInserted =>
              /\ Cardinality(DOMAIN tasks') = Cardinality(DOMAIN tasks) + 1
              /\ \A t \in DOMAIN tasks :
                     t \in DOMAIN tasks' /\ tasks'[t] = tasks[t]
              /\ ~HoldsUncommitted(conn'["onboarding"])
              /\ UNCHANGED <<db_documents, db_embeddings, db_events,
                             agent_runs, db_chunks>>
       /\ EventInserted =>
              /\ Cardinality(db_events') = Cardinality(db_events) + 1
              /\ ~HoldsUncommitted(conn'["onboarding"])
              /\ UNCHANGED <<db_documents, db_embeddings, tasks, agent_runs,
                             db_chunks>>
       /\ db_events \subseteq db_events']_vars

\* A second onboarding session has created a task and stored its event
\* beside the event of the first.
C24_Witness ==
    /\ onb.pc = "log_completed"
    /\ onb.calls = 2
    /\ Cardinality(db_events) = 2
    /\ Cardinality(DOMAIN tasks) > MaxTasks

\* C27: if the questionnaire is interrupted (end of input or Ctrl+C at a
\* prompt of any section), nothing of that session is saved: no document
\* and no embedding written during the session remains in the store.
C27_InterruptedSavesNothing ==
    onb.outcome = Interrupt =>
        /\ onb.stored_doc_ids \cap db_documents = {}
        /\ \A e \in db_embeddings :
               ~(e.ref_type = "document" /\ e.ref_id \in onb.stored_doc_ids)

\* C25: an unknown embedding or inference provider name makes the
\* provider call fail with a configuration error, and that failure aborts
\* the run of every agent, the DataCollector included: execute() does not
\* record status=completed and re-raises.
C25_UnknownProviderAbortsRun ==
    (/\ dpc \in {"returned", "raised"}
     /\ \E i \in DOMAIN item_log : item_log[i].failed = ValueError)
        => /\ dpc = "raised"
           /\ \A r \in agent_runs : r.status # "completed"

\* Whether the embedding of (ref_type, ref_id) is committed.
Embedded(ref_type, ref_id) ==
    \E e \in db_embeddings : EmbKey(e) = <<ref_type, ref_id>>

\* Every row of the item is committed / no row of it is.
FullyApplied(e) ==
    /\ e.doc_id \in db_documents
    /\ Embedded("document", e.doc_id)
    /\ Cardinality(ChunkRows(e.doc_id)) = e.stored
    /\ \A r \in ChunkRows(e.doc_id) : Embedded("document_chunk", r.id)

NotApplied(e) ==
    /\ e.doc_id \notin db_documents
    /\ ~Embedded("document", e.doc_id)
    /\ ChunkRows(e.doc_id) = {}

\* C28: when a DataCollector run is recorded with status=completed, each
\* item of the run has its document, all its non-empty chunks and all
\* their embeddings committed, or none of its rows.
C28_CompletedMeansAllOrNothing ==
    (dpc = "returned" /\ \E r \in agent_runs : r.status = "completed")
        => \A i \in DOMAIN item_log :
               FullyApplied(item_log[i]) \/ NotApplied(item_log[i])

\* C29: in DataCollector.run an item fails only by a failure of its own
\* provider and store calls, never because an earlier item failed, and
\* the rows committed while an item is stored are the item's own.
C29_LaterItemsUnaffected ==
    [][/\ Len(item_log') > Len(item_log) =>
              LET e == item_log'[Len(item_log')]
              IN  e.failed # NoExc => e.faulted
       /\ dpc \in {"store_document", "chunks"} =>
              /\ db_documents' \ db_documents \subseteq {nextId, item.doc_id}
              /\ \A r \in db_chunks' \ db_chunks :
                     r.document_id \in {nextId, item.doc_id}]_vars

\* C26: when two processes update the same task concurrently, each update
\* the store accepts commits, neither process waits forever, and the
\* task's status is the one written by the update that committed last.
C26_LastCommitWins ==
    /\ [](\A t \in TaskIds :
             race.last_commit[t] # ""
                 => tasks[t].status = race.want[race.last_commit[t]].new_status)
    /\ [](\A c \in Closers :
             race.pc[c] = "done" => (race.ok[c] <=> ~race.want[c].fails))
    /\ <>(\A c \in Closers : race.pc[c] = "done")

\* Both processes have committed an update of the same task, with
\* different statuses, and the second had to wait for the first.
C26_Witness ==
    /\ \A c \in Closers : race.pc[c] = "done" /\ race.ok[c]
    /\ race.want["closer_1"].task_id = race.want["closer_2"].task_id
    /\ race.want["closer_1"].new_status # race.want["closer_2"].new_status
    /\ race.last_commit[race.want["closer_1"].task_id] = "closer_1"

\* C30: when a completion-claim turn is found and no write of the run
\* fails, run() gathers the peers' events and the events flagged for it,
\* makes its inference call, applies the verdict and returns the count
\* summary, which execute() records as completed.
C30_ClaimsRunCompletes ==
    \A c \in Closers :
        (cpc[c] = "done" /\ claim_turns /\ run_failed = "")
            => /\ left[c].gathered
               /\ llm_called[c]
               /\ cresult[c] = ProcessedSummary

\* C31: at every reachable state a task has completed_at set if and only
\* if its status is done.
C31_CompletedAtIffDone ==
    \A t \in TaskIds : tasks[t].completed_at <=> tasks[t].status = "done"

\* C32: the counts of the Closer's summary are the numbers of task rows
\* the run updated: a completion that updated no row to done adds nothing
\* to completed_count, a partial update that updated no row adds nothing
\* to partial_count, and every row updated is counted once.
C32_CountsEqualApplied ==
    [][/\ last_step'.kind = "completion" =>
            /\ counts'.completed - counts.completed
                  = IF WroteTask(last_step') THEN 1 ELSE 0
            /\ counts'.partial = counts.partial
       /\ last_step'.kind = "partial" =>
            /\ counts'.partial - counts.partial
                  = IF WroteTask(last_step') THEN 1 ELSE 0
            /\ counts'.completed = counts.completed
       /\ last_step'.kind = "none" =>
            \/ counts' = counts
            \/ counts' = NoCounts]_vars

\* C33: every committed row of document_chunks has a committed embeddings
\* row keyed (document_chunk, id).
C33_CommittedChunkHasEmbedding ==
    \A r \in db_chunks : Embedded("document_chunk", r.id)

\* A step of execute() that calls log_run.
AuditAttempted(a) == pc[a] \in {"log_completed", "except"} /\ pc'[a] # pc[a]

\* run() has returned or has raised an exception.
RunEnded(a) == runOutcome[a] = "returned" \/ RunRaised(a)

\* run() is called in this step, once per execute() call and with the
\* connection open.
RunInvokedOnceConnected(a) ==
    (pc'[a] = "run" /\ pc[a] # "run") =>
        /\ pc[a] = "idle"
        /\ calls'[a] = calls[a] + 1
        /\ conn'[a].status = "open"

\* The step that closes the connection is the step that leaves execute(),
\* and outside execute() the agent's connection does nothing.
DisconnectIsLast(a) ==
    /\ (conn[a].status = "open" /\ conn'[a].status # "open") =>
           pc[a] = "finally" /\ pc'[a] = "idle"
    /\ (pc[a] = "idle" /\ pc'[a] = "idle") => conn'[a] = conn[a]

\* C34 (as stated): within one execute() call run() is invoked at most
\* once and only after the connection is open, the audit write is
\* attempted only after run() has returned or raised, and nothing happens
\* on the store after the disconnect.
C34_ExecuteOrder ==
    [][\A a \in Agents :
          /\ RunInvokedOnceConnected(a)
          /\ AuditAttempted(a) => RunEnded(a)
          /\ DisconnectIsLast(a)]_vars

\* C34 (amended): as above, but the audit write is attempted after run()
\* has returned or raised, or after connect_db itself raised before run()
\* was ever called.
C34_ExecuteOrderOrConnectFailed ==
    [][\A a \in Agents :
          /\ RunInvokedOnceConnected(a)
          /\ AuditAttempted(a) =>
                \/ RunEnded(a)
                \/ /\ runOutcome[a] = "none"
                   /\ pending_exc[a] = OperationalError
                   /\ pc[a] = "except"
          /\ DisconnectIsLast(a)]_vars

\* Three calls have finished: one whose run() returned and was audited,
\* one whose run() raised and was audited, and one whose connect_db
\* raised, whose audit write reconnected and wrote the failed row.
C34_Witness ==
    /\ \E a \in Agents :
          /\ Finished(a) /\ runOutcome[a] = "none"
          /\ outcome[a] = OperationalError
          /\ RowsOfCall(a, calls[a]) = {AuditRow(a, "failed", OperationalError)}
    /\ \E r \in agent_runs : r.status = "completed"
    /\ \E r \in agent_runs : r.status = "failed" /\ r.summary # OperationalError

\* The sessions an agent instance has open at the server.
OpenOf(a) == {s \in handles.open : s.by = a}

\* C35: an agent instance never has more than one connection open;
\* connect_db returns the connection it holds while that is open and
\* opens a new one only when it holds none or a closed one; disconnect_db
\* on a closed or never-opened connection changes nothing.
C35_AtMostOneOpenConnection ==
    /\ [](\A a \in Agents : Cardinality(OpenOf(a)) <= 1)
    /\ [][\A a \in Agents : handles'.last.by = a =>
            /\ handles'.last.op = "connect_db" =>
                 IF HoldsOpen(handles.db_conn[a])
                 THEN /\ handles'.last.returned = handles.db_conn[a]
                      /\ handles'.db_conn = handles.db_conn
                      /\ handles'.open = handles.open
                 ELSE IF handles'.last.raised = NoExc
                 THEN /\ handles'.last.returned \notin OpenIds
                      /\ handles'.last.returned # handles.db_conn[a]
                      /\ handles'.db_conn[a] = handles'.last.returned
                      /\ handles'.open = handles.open \cup
                            {[id |-> handles'.last.returned, by |-> a]}
                 ELSE /\ handles'.db_conn = handles.db_conn
                      /\ handles'.open = handles.open
            /\ handles'.last.op = "disconnect_db" =>
                 /\ handles'.db_conn = handles.db_conn
                 /\ IF HoldsOpen(handles.db_conn[a])
                    THEN handles'.open = handles.open \ OpenOf(a)
                    ELSE handles'.open = handles.open]_vars

\* After connections have been opened and closed, an agent has just
\* called disconnect_db on a connection that was already closed, while
\* the other agent holds an open connection.
C35_Witness ==
    \E a, b \in Agents :
        /\ a # b
        /\ handles.last = [by |-> b, op |-> "disconnect_db",
                           held |-> "closed", returned |-> 0,
                           raised |-> NoExc]
        /\ handles.db_conn[b] # 0 /\ ~HoldsOpen(handles.db_conn[b])
        /\ \E h \in 1..MaxHandles : h < handles.db_conn[b]
                                     /\ h # handles.db_conn[a]
        /\ HoldsOpen(handles.db_conn[a])

\* run() returns from its loop in this step.
IngestReturns == ingest.pc = "loop" /\ ingest'.pc = "idle"
                 /\ ingest'.result.text # Interrupt

\* run() is called in this step.
IngestRunCalled == ingest'.runs = ingest.runs + 1

\* C36: a run() that returns has processed every queued item once, in the
\* order of the queue_item calls, reports ingested + failed equal to the
\* number of queued items and leaves the queue empty; a run() called when
\* no item was queued since the last run() returned makes no inference
\* call and writes nothing.
C36_QueueProcessedOnce ==
    [][/\ IngestReturns =>
            /\ Len(ingest.processed) = Len(ingest.pending_items)
            /\ \A i \in DOMAIN ingest.pending_items :
                   ingest.processed[i].item = ingest.pending_items[i]
            /\ \A i, j \in DOMAIN ingest.pending_items :
                   i < j => ingest.pending_items[i] < ingest.pending_items[j]
            /\ ingest'.result.summary.ingested + ingest'.result.summary.failed
                   = Len(ingest.pending_items)
            /\ ingest.llm_calls = Len(ingest.pending_items)
            /\ ingest'.pending_items = <<>>
       /\ (IngestRunCalled /\ ~ingest.staged) =>
            /\ ingest'.pc = "idle"
            /\ ingest'.result.text = "No items to ingest."
            /\ ingest'.llm_calls = ingest.llm_calls
            /\ ingest'.writes = ingest.writes
            /\ ingest'.processed = ingest.processed]_vars

\* A run over two items, one stored and one failed, has returned, and a
\* second run() without a queue_item call in between has returned too.
C36_Witness ==
    /\ ingest.pc = "idle"
    /\ ingest.runs = 2
    /\ ingest.result.text = "No items to ingest."
    /\ ingest.pending_items = <<>>
    /\ Len(ingest.processed) = 2
    /\ ingest.processed[1] = [item |-> 1, failed |-> StoreError]
    /\ ingest.processed[2] = [item |-> 2, failed |-> NoExc]
    /\ ingest.llm_calls = 2

RECURSIVE ParasInOrder(_, _)
\* The paragraph positions of the chunks from the k-th on, in the order
\* the chunks and their contents give them.
ParasInOrder(chunks, k) ==
    IF k > Len(chunks) THEN <<>>
    ELSE chunks[k].paras \o ParasInOrder(chunks, k + 1)

\* C37: for a content longer than the chunk target every non-blank
\* paragraph is in exactly one returned chunk (which is not empty), and
\* the chunks and the paragraphs inside them follow the order of the
\* content.
C37_NothingLostOrReordered ==
    ContentLen(chunked.content) > chunked.chunk_size =>
        LET order == ParasInOrder(chunked.chunks, 1)
        IN  /\ \A i \in DOMAIN chunked.content :
                  chunked.content[i].text =>
                      /\ Cardinality({j \in DOMAIN order : order[j] = i}) = 1
                      /\ \A k \in DOMAIN chunked.chunks :
                            (\E j \in DOMAIN chunked.chunks[k].paras :
                                chunked.chunks[k].paras[j] = i)
                            => chunked.chunks[k].content # ""
            /\ \A j1, j2 \in DOMAIN order : j1 < j2 => order[j1] < order[j2]

\* A content of a short paragraph, a blank one and a long one has been
\* split into two chunks: the first two paragraphs, then the third.
C37_Witness ==
    /\ ContentLen(chunked.content) > chunked.chunk_size
    /\ Len(chunked.content) = 3
    /\ ~chunked.content[2].text
    /\ Len(chunked.chunks) = 2
    /\ chunked.chunks[1].paras = <<1, 2>>
    /\ chunked.chunks[2].paras = <<3>>

\* C38: every text the embedding backend receives is at most 8000
\* characters long, whoever called embed_text.
C38_AtMost8000Characters ==
    \A i \in DOMAIN embed_requests : embed_requests[i].input <= 8000

\* _clear_onboarding commits in this step.
ClearCommits == clearing.pc = "documents_deleted" /\ clearing'.pc = "committed"

\* C39: when _clear_onboarding has committed, no onboarding document
\* remains, no embedding of ref_type document refers to a document that
\* does not exist, and the documents of other types and their embeddings
\* are as they were, whatever other processes stored meanwhile.
C39_ResetLeavesNoOnboardingRows ==
    [][ClearCommits =>
          /\ db_documents' \ clearing'.notes = {}
          /\ \A e \in db_embeddings' :
                e.ref_type = "document" => e.ref_id \in db_documents'
          /\ \A d \in clearing.notes :
                /\ d \in db_documents'
                /\ \A e \in db_embeddings :
                      EmbKey(e) = <<"document", d>> => e \in db_embeddings']_vars

====
